---- MODULE Spec2Model ----
(***************************************************************************)
(* Model of the cross-source joiner of agente-publico: key discovery       *)
(* (DataCrosser.identificar_chaves_potenciais), join execution             *)
(* (DataCrosser.cruzar_dataframes, DataCrosser.cruzar_dados), quality      *)
(* scoring (DataCrosser.avaliar_qualidade_cruzamento) and the tables they  *)
(* read; of the rate-limited API clients (TransparenciaAPI, CNDPAPI,       *)
(* DadosGovAPI and the clients of app_completo.py); and of the crossing    *)
(* page, which stores the results of the joins in the session.             *)
(***************************************************************************)
EXTENDS Integers, Sequences, FiniteSets, TLC

VARIABLES
  df1,            \* first input table
  df2,            \* second input table
  op,             \* the call made last: "init", "chaves", "comuns", "cruzar_dataframes", "cruzar_dados",
                  \* "avaliar_qualidade", "avaliar_qualidade_app", "realizar_cruzamento",
                  \* "realizar_cruzamento_app"
  erro,           \* the exception the last call raised, SemErro when it returned
  chaves,         \* what identificar_chaves_potenciais returned last
  chaves_comuns,  \* what identificar_chaves_comuns returned last
  args,           \* the key columns and the mode the last join was called with
  resultado,      \* the table the last join returned
  etapas,         \* the steps the last join call went through before it ended
  metricas,       \* the quality report of the table in resultado, SemMetricas while none was computed
  sessao,         \* st.session_state.dataframes: dataset name -> entry
  df1_nome,       \* the dataset selected as the first one in the crossing page
  df2_nome,       \* the dataset selected as the second one
  mensagem,       \* what the crossing page showed for the last click: "", "success", "error"
  relogio,        \* time.time(), in ticks
  last_request_time, \* the field of the rate-limited clients
  pedidos,        \* the HTTP requests sent so far with the status and the number of
                  \* records of each answer, oldest first
  chamada,        \* the client call in progress or made last
  retorno,        \* how the client call ended: returned value or raised exception
  arquivos        \* the paths of the files on disk

vars_cruzamento ==
  <<df1, df2, op, erro, chaves, chaves_comuns, args, resultado, etapas, metricas>>

vars_sessao == <<sessao, df1_nome, df2_nome, mensagem>>

vars_cliente == <<relogio, last_request_time, pedidos, chamada, retorno, arquivos>>

vars == <<df1, df2, op, erro, chaves, chaves_comuns, args, resultado, etapas, metricas,
          sessao, df1_nome, df2_nome, mensagem,
          relogio, last_request_time, pedidos, chamada, retorno, arquivos>>

(***************************************************************************)
(* The session store and the API clients before anything used them.        *)
(***************************************************************************)
\* time.time() when a client is constructed, in ticks: far from the 0 that
\* __init__ puts in last_request_time
Epoca == 1000

\* st.session_state.dataframes = {}
SemSessao == [nome \in {} |-> 0]

SessaoVazia ==
  /\ sessao = SemSessao
  /\ df1_nome = ""
  /\ df2_nome = ""
  /\ mensagem = ""

\* no call made yet
SemChamada ==
  [cliente |-> "", nome |-> "", args |-> <<>>, pc |-> "ocioso", endpoint |-> "",
   params |-> <<>>,
   paginar |-> FALSE, pagina_inicial |-> 0, itens_por_pagina |-> 0, max_paginas |-> <<>>,
   pagina_atual |-> 0, todos_resultados |-> <<>>, profundidade |-> 0]

SemRetorno == [tipo |-> "", excecao |-> "", valor |-> <<>>, attrs |-> <<>>]

\* __init__: self.rate_limit = 5; self.last_request_time = 0
ClienteOcioso ==
  /\ relogio = Epoca
  /\ last_request_time = 0
  /\ pedidos = <<>>
  /\ chamada = SemChamada
  /\ retorno = SemRetorno
  /\ arquivos = {}

(***************************************************************************)
(* Bounds of the model.                                                    *)
(***************************************************************************)
\* rows of a table enumerated exhaustively for key discovery
MaxLinhas == 2
\* rows of the one-column tables of consecutive codes
MaxFaixa == 10

(***************************************************************************)
(* Cell values.  A cell is missing (None/NaN), a Python int or a Python    *)
(* str; the str with field n = k is the decimal text of k ("1", "2", ...). *)
(***************************************************************************)
NULO == [t |-> "null", n |-> 0]
PyInt(k) == [t |-> "i", n |-> k]
PyStr(k) == [t |-> "s", n |-> k]

IsNa(v) == v.t = "null"

\* Series.astype(str) on one cell: str(1) is "1", a str stays itself, and a
\* missing cell becomes a text (never reached here: dropna() comes first).
AsTypeStr(v) == IF v.t = "i" THEN PyStr(v.n) ELSE IF v.t = "null" THEN PyStr(-1) ELSE v

(***************************************************************************)
(* Tables: an ordered list of named columns of equal length n.  kind is    *)
(* the column's dtype.kind: "i" (int64), "f" (float64) or "O" (object).    *)
(***************************************************************************)
Nomes == {"id", "codigo"}

Range(s) == {s[i] : i \in 1..Len(s)}

Columns(df) == [i \in 1..Len(df.cols) |-> df.cols[i].nome]

ColumnSet(df) == Range(Columns(df))

Col(df, nome) == df.cols[CHOOSE i \in 1..Len(df.cols) : df.cols[i].nome = nome]

\* Series.dropna().unique() as a set
DropNa(col) == {col.vals[i] : i \in {j \in 1..Len(col.vals) : ~IsNa(col.vals[j])}}

\* Series.nunique(): distinct non-missing values
NUnique(col) == Cardinality(DropNa(col))

\* Series.dropna().astype(str).unique() as a set
DropNaStr(col) == {AsTypeStr(v) : v \in DropNa(col)}

Max(a, b) == IF a >= b THEN a ELSE b

(***************************************************************************)
(* Input tables of key discovery.  Discovery reads a column only through   *)
(* its length, its nunique and its set of values, so the rows of a column  *)
(* are enumerated up to permutation (non-decreasing in the order below).   *)
(***************************************************************************)
ValoresO == <<NULO, PyStr(1), PyInt(1)>>
ValoresI == <<PyInt(1), PyInt(2)>>

SeqsOrd(n, vs) ==
  { [i \in 1..n |-> vs[f[i]]] :
      f \in {g \in [1..n -> 1..Len(vs)] : \A i \in 1..(n - 1) : g[i] <= g[i + 1]} }

ColunasDe(n) ==
  { [kind |-> "O", vals |-> s] : s \in SeqsOrd(n, ValoresO) }
    \cup { [kind |-> "i", vals |-> s] : s \in SeqsOrd(n, ValoresI) }

Nomeada(a, c) == [nome |-> a, kind |-> c.kind, vals |-> c.vals]

TabelasDe(n) ==
  { [n |-> n, cols |-> <<Nomeada(a, c)>>] : a \in Nomes, c \in ColunasDe(n) }
    \cup { [n |-> n, cols |-> <<Nomeada(ab[1], c), Nomeada(ab[2], d)>>] :
             ab \in {x \in Nomes \X Nomes : x[1] # x[2]},
             c \in ColunasDe(n), d \in ColunasDe(n) }

\* a DataFrame without columns has no rows
TabelaVazia == [n |-> 0, cols |-> <<>>]

\* one object column of m consecutive codes "s", "s+1", ...
Faixa(a, s, m) ==
  [n |-> m, cols |-> <<[nome |-> a, kind |-> "O", vals |-> [i \in 1..m |-> PyStr(s + i - 1)]]>>]

TabelasFaixa ==
  UNION { { Faixa(a, 1, m), Faixa(a, m, m) } : a \in Nomes, m \in 1..MaxFaixa }

TabelasChaves ==
  {TabelaVazia} \cup UNION { TabelasDe(n) : n \in 0..MaxLinhas } \cup TabelasFaixa

(***************************************************************************)
(* Key discovery: DataCrosser.identificar_chaves_potenciais.               *)
(***************************************************************************)
\* 0.5 and 0.1 of the source, as the fractions 1/2 and 1/10
LimiarCardinalidadeDen == 2
LimiarSobreposicaoDen == 10

\* nunique() / len(df) > 0.5, for len(df) > 0 (float division of two small
\* ints is exact enough: the quotient exceeds 0.5 exactly when 2*nunique > len)
AltaCardinalidade(col, n) == LimiarCardinalidadeDen * NUnique(col) > n

\* sobreposicao / max(len(valores_df1), len(valores_df2)), kept as a fraction
Score(v1, v2) ==
  [num |-> Cardinality(v1 \cap v2), den |-> Max(Cardinality(v1), Cardinality(v2))]

\* the threshold test with the boundary let through (>= for >)
AcimaDoLimiarInclusivo(score) == LimiarSobreposicaoDen * score.num >= score.den

\* score > 0.1: the double nearest to num/den exceeds the double 0.1 exactly
\* when num/den > 1/10 (1/10 itself rounds to the literal 0.1)
AcimaDoLimiar(score) == LimiarSobreposicaoDen * score.num > score.den

ScoreGeq(a, b) == a.num * b.den >= b.num * a.den

ScoreEq(a, b) == a.num * b.den = b.num * a.den

Candidato(c1, c2, sc) == [col1 |-> c1, col2 |-> c2, score |-> sc]

\* the loop body with candidates of score 0 dropped (if sobreposicao:)
MesmoNomeSemZero(t1, t2, coluna) ==
  LET c1 == Col(t1, coluna)
      c2 == Col(t2, coluna)
      valores_df1 == DropNa(c1)
      valores_df2 == DropNa(c2)
  IN IF AltaCardinalidade(c1, t1.n) /\ AltaCardinalidade(c2, t2.n)
          /\ valores_df1 \cap valores_df2 # {}
     THEN <<Candidato(coluna, coluna, Score(valores_df1, valores_df2))>>
     ELSE <<>>

\* body of the loop over colunas_comuns for one column
MesmoNome(t1, t2, coluna) ==
  LET c1 == Col(t1, coluna)
      c2 == Col(t2, coluna)
      valores_df1 == DropNa(c1)
      valores_df2 == DropNa(c2)
  IN IF AltaCardinalidade(c1, t1.n) /\ AltaCardinalidade(c2, t2.n)
          /\ valores_df1 # {} /\ valores_df2 # {}
     THEN <<Candidato(coluna, coluna, Score(valores_df1, valores_df2))>>
     ELSE <<>>

\* the dtype kinds the second loop treats as numeric and as text
KindsNumericos == {"i", "u", "f"}
KindsTexto == {"O", "S", "U"}

\* the loop body with the numeric pairs scored like the text pairs (the
\* continue of the numeric branch left out)
OutroNomeComNumericos(t1, t2, c1, c2) ==
  LET valores_df1 == DropNaStr(c1)
      valores_df2 == DropNaStr(c2)
  IN IF c1.nome # c2.nome /\ c1.kind = c2.kind
          /\ c1.kind \in KindsNumericos \cup KindsTexto
          /\ AltaCardinalidade(c1, t1.n) /\ AltaCardinalidade(c2, t2.n)
          /\ valores_df1 # {} /\ valores_df2 # {}
          /\ AcimaDoLimiar(Score(valores_df1, valores_df2))
     THEN <<Candidato(c1.nome, c2.nome, Score(valores_df1, valores_df2))>>
     ELSE <<>>

\* body of the nested loop over df1.columns x df2.columns for one pair
OutroNome(t1, t2, c1, c2) ==
  LET valores_df1 == DropNaStr(c1)
      valores_df2 == DropNaStr(c2)
  IN IF c1.nome # c2.nome /\ c1.kind = c2.kind /\ c1.kind \notin KindsNumericos
          /\ c1.kind \in KindsTexto
          /\ AltaCardinalidade(c1, t1.n) /\ AltaCardinalidade(c2, t2.n)
          /\ valores_df1 # {} /\ valores_df2 # {}
          /\ AcimaDoLimiar(Score(valores_df1, valores_df2))
     THEN <<Candidato(c1.nome, c2.nome, Score(valores_df1, valores_df2))>>
     ELSE <<>>

RECURSIVE Passo1(_, _, _)
\* first loop; ordem is the order in which the set colunas_comuns is iterated
Passo1(t1, t2, ordem) ==
  IF ordem = <<>> THEN <<>>
  ELSE MesmoNome(t1, t2, Head(ordem)) \o Passo1(t1, t2, Tail(ordem))

RECURSIVE Passo2De(_, _, _)
\* second loop, from the p-th pair on: col1 outer, col2 inner
Passo2De(t1, t2, p) ==
  LET k2 == Len(t2.cols)
  IN IF k2 = 0 \/ p > Len(t1.cols) * k2 THEN <<>>
     ELSE OutroNome(t1, t2, t1.cols[((p - 1) \div k2) + 1], t2.cols[((p - 1) % k2) + 1])
            \o Passo2De(t1, t2, p + 1)

Passo2(t1, t2) == Passo2De(t1, t2, 1)

\* x put after every element whose score is not lower: one step of a stable
\* sort by descending score
Inserir(s, x) ==
  LET k == Cardinality({i \in 1..Len(s) : ScoreGeq(s[i].score, x.score)})
  IN SubSeq(s, 1, k) \o <<x>> \o SubSeq(s, k + 1, Len(s))

RECURSIVE OrdenarDe(_, _)
OrdenarDe(feito, resto) ==
  IF resto = <<>> THEN feito ELSE OrdenarDe(Inserir(feito, Head(resto)), Tail(resto))

\* sorted(chaves_potenciais, key=lambda x: x[2], reverse=True)
Ordenar(s) == OrdenarDe(<<>>, s)

ColunasComuns(t1, t2) == ColumnSet(t1) \cap ColumnSet(t2)

\* the orders in which a Python set of these names can be iterated
OrdensDe(S) == {s \in [1..Cardinality(S) -> S] : Range(s) = S}

\* the divisions by len(df1) and len(df2) that are reached: one per common
\* column, and one per pair of text columns with different names
DivisaoAlcancada(t1, t2) ==
  \/ ColunasComuns(t1, t2) # {}
  \/ \E i \in 1..Len(t1.cols), j \in 1..Len(t2.cols) :
        /\ t1.cols[i].nome # t2.cols[j].nome
        /\ t1.cols[i].kind = t2.cols[j].kind
        /\ t1.cols[i].kind \notin KindsNumericos
        /\ t1.cols[i].kind \in KindsTexto

\* int / int with a zero divisor raises ZeroDivisionError
LevantaDivisao(t1, t2) == (t1.n = 0 \/ t2.n = 0) /\ DivisaoAlcancada(t1, t2)

ChavesPotenciais(t1, t2, ordem) == Ordenar(Passo1(t1, t2, ordem) \o Passo2(t1, t2))

\* an exception: its type, what it is about, and what its message names
SemErro == [tipo |-> "", causa |-> "", coluna |-> "", tabela |-> 0, modos |-> <<>>]

Erro(tipo, causa) == [tipo |-> tipo, causa |-> causa, coluna |-> "", tabela |-> 0, modos |-> <<>>]

IdentificarChavesPotenciais ==
  /\ \E ordem \in OrdensDe(ColunasComuns(df1, df2)) :
       IF LevantaDivisao(df1, df2)
       THEN /\ erro' = Erro("ZeroDivisionError", "len")
            /\ chaves' = <<>>
       ELSE /\ erro' = SemErro
            /\ chaves' = ChavesPotenciais(df1, df2, ordem)
  /\ op' = "chaves"
  /\ UNCHANGED <<df1, df2, chaves_comuns, args, resultado, etapas, metricas>>
  /\ UNCHANGED <<vars_sessao, vars_cliente>>

(***************************************************************************)
(* identificar_chaves_comuns of utils/data_processing.py.                  *)
(***************************************************************************)
\* the test of the loop body: the second quotient is not evaluated when the
\* first one already exceeds 0.5
ComumAceita(t1, t2, coluna) ==
  AltaCardinalidade(Col(t1, coluna), t1.n) \/ AltaCardinalidade(Col(t2, coluna), t2.n)

\* the division by zero the loop body reaches for one column
ComumLevanta(t1, t2, coluna) ==
  t1.n = 0 \/ (~AltaCardinalidade(Col(t1, coluna), t1.n) /\ t2.n = 0)

RECURSIVE ChavesComuns(_, _, _)
ChavesComuns(t1, t2, ordem) ==
  IF ordem = <<>> THEN <<>>
  ELSE (IF ComumAceita(t1, t2, Head(ordem)) THEN <<Head(ordem)>> ELSE <<>>)
         \o ChavesComuns(t1, t2, Tail(ordem))

IdentificarChavesComuns ==
  /\ \E ordem \in OrdensDe(ColunasComuns(df1, df2)) :
       IF \E c \in ColunasComuns(df1, df2) : ComumLevanta(df1, df2, c)
       THEN /\ erro' = Erro("ZeroDivisionError", "len")
            /\ chaves_comuns' = <<>>
       ELSE /\ erro' = SemErro
            /\ chaves_comuns' = ChavesComuns(df1, df2, ordem)
  /\ op' = "comuns"
  /\ UNCHANGED <<df1, df2, chaves, args, resultado, etapas, metricas>>
  /\ UNCHANGED <<vars_sessao, vars_cliente>>

SemArgs == [chave1 |-> "", chave2 |-> "", metodo |-> ""]

SemResultado == [ok |-> FALSE, tabela |-> TabelaVazia, linhas |-> <<>>]

\* no quality report: the dict without keys
SemMetricas == [k \in {} |-> 0]

InitChaves ==
  /\ df1 \in TabelasChaves
  /\ df2 \in TabelasChaves
  /\ op = "init"
  /\ erro = SemErro
  /\ chaves = <<>>
  /\ chaves_comuns = <<>>
  /\ args = SemArgs
  /\ resultado = SemResultado
  /\ etapas = <<>>
  /\ metricas = SemMetricas
  /\ SessaoVazia
  /\ ClienteOcioso

NextChaves == IdentificarChavesPotenciais

SpecChaves == InitChaves /\ [][NextChaves]_vars

NextComuns == IdentificarChavesComuns

SpecComuns == InitChaves /\ [][NextComuns]_vars

(***************************************************************************)
(* pandas.merge(left, right, left_on=lk, right_on=rk, how=how,             *)
(* suffixes=suf), as the two join methods call it.  A result row is a pair *)
(* <<i, j>> of a left and a right row number, 0 where the side is absent.  *)
(***************************************************************************)
\* the join modes the source documents
MetodosValidos == <<"inner", "left", "right", "outer">>

\* merge keys are compared by value, and a missing key equals a missing key
\* (pandas matches null keys with each other, unlike SQL)
ChavesCasam(v, w) == v = w

\* the matches of one left row cut to the first one (first-match-only lookup)
ParesDaLinhaPrimeiro(k1, k2, i) ==
  LET todos == SelectSeq([j \in 1..Len(k2) |-> <<i, j>>],
                         LAMBDA p : ChavesCasam(k1[p[1]], k2[p[2]]))
  IN IF todos = <<>> THEN <<>> ELSE <<Head(todos)>>

\* the right rows whose key matches the key of left row i, in right order
ParesDaLinha(k1, k2, i) ==
  SelectSeq([j \in 1..Len(k2) |-> <<i, j>>], LAMBDA p : ChavesCasam(k1[p[1]], k2[p[2]]))

\* the left rows whose key matches the key of right row j, in left order
ParesDaColuna(k1, k2, j) ==
  SelectSeq([i \in 1..Len(k1) |-> <<i, j>>], LAMBDA p : ChavesCasam(k1[p[1]], k2[p[2]]))

RECURSIVE LinhasInner(_, _, _)
\* how="inner": the matching pairs, in the order of the left keys
LinhasInner(k1, k2, i) ==
  IF i > Len(k1) THEN <<>>
  ELSE ParesDaLinha(k1, k2, i) \o LinhasInner(k1, k2, i + 1)

RECURSIVE LinhasLeft(_, _, _)
\* how="left": every left row, alone when no right key matches it
LinhasLeft(k1, k2, i) ==
  IF i > Len(k1) THEN <<>>
  ELSE (IF ParesDaLinha(k1, k2, i) = <<>> THEN <<<<i, 0>>>> ELSE ParesDaLinha(k1, k2, i))
         \o LinhasLeft(k1, k2, i + 1)

RECURSIVE LinhasRight(_, _, _)
\* how="right": every right row, in the order of the right keys
LinhasRight(k1, k2, j) ==
  IF j > Len(k2) THEN <<>>
  ELSE (IF ParesDaColuna(k1, k2, j) = <<>> THEN <<<<0, j>>>> ELSE ParesDaColuna(k1, k2, j))
         \o LinhasRight(k1, k2, j + 1)

\* the right rows no left key matches
SoDireita(k1, k2) ==
  SelectSeq([j \in 1..Len(k2) |-> <<0, j>>], LAMBDA p : ParesDaColuna(k1, k2, p[2]) = <<>>)

ChaveDoPar(k1, k2, p) == IF p[1] # 0 THEN k1[p[1]] ELSE k2[p[2]]

\* the order how="outer" sorts the keys in: ints, then texts, missing last
OrdemTipo(v) == IF v.t = "i" THEN 0 ELSE IF v.t = "s" THEN 1 ELSE 2

ChaveMenorOuIgual(v, w) ==
  OrdemTipo(v) < OrdemTipo(w) \/ (OrdemTipo(v) = OrdemTipo(w) /\ v.n <= w.n)

InserirPar(k1, k2, s, p) ==
  LET k == Cardinality({i \in 1..Len(s) :
                          ChaveMenorOuIgual(ChaveDoPar(k1, k2, s[i]), ChaveDoPar(k1, k2, p))})
  IN SubSeq(s, 1, k) \o <<p>> \o SubSeq(s, k + 1, Len(s))

RECURSIVE OrdenarPares(_, _, _, _)
OrdenarPares(k1, k2, feito, resto) ==
  IF resto = <<>> THEN feito
  ELSE OrdenarPares(k1, k2, InserirPar(k1, k2, feito, Head(resto)), Tail(resto))

\* the sorted left rows alone (the rows of the right side only are dropped)
LinhasOuterSemDireita(k1, k2) ==
  OrdenarPares(k1, k2, <<>>, LinhasLeft(k1, k2, 1))

\* how="outer": the union of the keys of both sides, sorted by key
LinhasOuter(k1, k2) ==
  OrdenarPares(k1, k2, <<>>, LinhasLeft(k1, k2, 1) \o SoDireita(k1, k2))

LinhasMerge(k1, k2, how) ==
  IF how = "inner" THEN LinhasInner(k1, k2, 1)
  ELSE IF how = "left" THEN LinhasLeft(k1, k2, 1)
  ELSE IF how = "right" THEN LinhasRight(k1, k2, 1)
  ELSE LinhasOuter(k1, k2)

\* pandas.api.types.infer_dtype(values, skipna=False) of a key column
InferDtype(col) ==
  LET ts == {col.vals[i].t : i \in 1..Len(col.vals)}
  IN IF Len(col.vals) = 0 THEN "empty"
     ELSE IF col.kind = "i" THEN "integer"
     ELSE IF col.kind = "f" THEN "floating"
     ELSE IF ts = {"i"} THEN "integer"
     ELSE IF "i" \in ts THEN "mixed-integer"
     ELSE IF ts = {"s"} THEN "string"
     ELSE "mixed"

BoolTypes == {"integer", "mixed-integer", "boolean", "empty"}
StringTypes == {"string", "unicode", "mixed", "bytes", "empty"}

\* _maybe_coerce_merge_keys: "You are trying to merge on object and int64
\* columns" when one key is an object column of texts and the other numeric
DtypeIncompativel(c1, c2) ==
  /\ \/ c1.kind = "O" /\ c2.kind \in KindsNumericos
     \/ c1.kind \in KindsNumericos /\ c2.kind = "O"
  /\ ~(InferDtype(c1) \in BoolTypes /\ InferDtype(c2) \in BoolTypes)
  /\ \/ InferDtype(c1) \in StringTypes /\ InferDtype(c2) \notin StringTypes
     \/ InferDtype(c2) \in StringTypes /\ InferDtype(c1) \notin StringTypes

\* an int64 column that received missing values becomes float64
KindDe(kind, vals) ==
  IF kind = "i" /\ \E i \in 1..Len(vals) : IsNa(vals[i]) THEN "f" ELSE kind

\* the merged table: the left columns, then the right columns without the
\* right key when both keys have the same name (that key is then one column,
\* filled from the right key where the left row is absent, of dtype object
\* when the dtypes of the two keys differ); names present on both sides get
\* the suffixes
TabelaMerge(left, right, lk, rk, linhas, suf) ==
  LET direita == SelectSeq(right.cols, LAMBDA c : ~(lk = rk /\ c.nome = rk))
      nomesDir == {direita[i].nome : i \in 1..Len(direita)}
      repetidos == ColumnSet(left) \cap nomesDir
      CelE(c, p) == IF p[1] # 0 THEN c.vals[p[1]]
                    ELSE IF c.nome = lk /\ lk = rk THEN Col(right, rk).vals[p[2]]
                    ELSE NULO
      CelD(c, p) == IF p[2] # 0 THEN c.vals[p[2]] ELSE NULO
      KindE(c) == IF c.nome = lk /\ lk = rk /\ c.kind # Col(right, rk).kind THEN "O" ELSE c.kind
      ColE(c) == LET vals == [r \in 1..Len(linhas) |-> CelE(c, linhas[r])]
                 IN [nome |-> IF c.nome \in repetidos THEN c.nome \o suf[1] ELSE c.nome,
                     kind |-> KindDe(KindE(c), vals), vals |-> vals]
      ColD(c) == LET vals == [r \in 1..Len(linhas) |-> CelD(c, linhas[r])]
                 IN [nome |-> IF c.nome \in repetidos THEN c.nome \o suf[2] ELSE c.nome,
                     kind |-> KindDe(c.kind, vals), vals |-> vals]
  IN [n |-> Len(linhas),
      cols |-> [i \in 1..Len(left.cols) |-> ColE(left.cols[i])]
                 \o [i \in 1..Len(direita) |-> ColD(direita[i])]]

\* DataFrame.add_prefix(prefixo)
AddPrefix(df, prefixo) ==
  [n |-> df.n,
   cols |-> [i \in 1..Len(df.cols) |->
               [nome |-> prefixo \o df.cols[i].nome, kind |-> df.cols[i].kind,
                vals |-> df.cols[i].vals]]]

\* DataFrame.rename(columns={de: para})
Rename(df, de, para) ==
  [n |-> df.n,
   cols |-> [i \in 1..Len(df.cols) |->
               [nome |-> IF df.cols[i].nome = de THEN para ELSE df.cols[i].nome,
                kind |-> df.cols[i].kind, vals |-> df.cols[i].vals]]]

Merge(left, right, lk, rk, how, suf) ==
  LET linhas == LinhasMerge(Col(left, lk).vals, Col(right, rk).vals, how)
  IN [ok |-> TRUE, tabela |-> TabelaMerge(left, right, lk, rk, linhas, suf), linhas |-> linhas]

(***************************************************************************)
(* Join execution: DataCrosser.cruzar_dataframes (utils/data_crosser.py)   *)
(* and DataCrosser.cruzar_dados (app_completo.py).                         *)
(***************************************************************************)
\* rows of a table enumerated exhaustively for the join
MaxLinhasCruzar == 2

\* ValueError(f"Chave '{chave}' não encontrada no primeiro|segundo DataFrame.")
ErroColuna(coluna, tabela) ==
  [tipo |-> "ValueError", causa |-> "coluna", coluna |-> coluna, tabela |-> tabela,
   modos |-> <<>>]

\* ValueError(f"Método '{metodo}' inválido. Métodos válidos: inner, left, right, outer")
ErroMetodo ==
  [tipo |-> "ValueError", causa |-> "metodo", coluna |-> "", tabela |-> 0,
   modos |-> MetodosValidos]

\* what pandas.merge raises for a how it does not know, by pandas version: a
\* KeyError naming the mode, or a MergeError listing the modes of pandas
ErrosHowPandas ==
  { Erro("KeyError", "how"),
    [tipo |-> "MergeError", causa |-> "how", coluna |-> "", tabela |-> 0,
     modos |-> <<"left", "right", "inner", "outer", "cross", "asof">>] }

ErroDtype == Erro("ValueError", "dtype")

\* the join modes a caller passes: the documented ones and one that is not
Metodos == Range(MetodosValidos) \cup {"full"}

\* the column names a caller passes: the names in use and one in no table
Chaves == Nomes \cup {"cpf"}

\* what pandas.merge does with the prepared tables: raise or return
MergeOuErro(left, right, lk, rk, metodo, suf) ==
  LET incompativel == DtypeIncompativel(Col(left, lk), Col(right, rk))
  IN IF metodo \notin Range(MetodosValidos)
     THEN /\ erro' \in ErrosHowPandas \cup (IF incompativel THEN {ErroDtype} ELSE {})
          /\ resultado' = SemResultado
     ELSE IF incompativel
     THEN /\ erro' = ErroDtype
          /\ resultado' = SemResultado
     ELSE /\ erro' = SemErro
          /\ resultado' = Merge(left, right, lk, rk, metodo, suf)

\* cruzar_dataframes with the second check reporting the first table (the
\* message of the first check pasted into the second)
CruzarDataframesMensagemTrocada(chave_df1, chave_df2, metodo) ==
  IF chave_df1 \notin ColumnSet(df1)
  THEN /\ erro' = ErroColuna(chave_df1, 1)
       /\ resultado' = SemResultado
       /\ etapas' = <<>>
  ELSE IF chave_df2 \notin ColumnSet(df2)
  THEN /\ erro' = ErroColuna(chave_df2, 1)
       /\ resultado' = SemResultado
       /\ etapas' = <<>>
  ELSE LET df1_copy == Rename(AddPrefix(df1, "df1_"), "df1_" \o chave_df1, "chave_juncao")
           df2_copy == Rename(AddPrefix(df2, "df2_"), "df2_" \o chave_df2, "chave_juncao")
       IN /\ MergeOuErro(df1_copy, df2_copy, "chave_juncao", "chave_juncao", metodo,
                         <<"_x", "_y">>)
          /\ etapas' = <<"copy", "add_prefix", "rename", "merge">>

CruzarDataframesDe(chave_df1, chave_df2, metodo) ==
  IF chave_df1 \notin ColumnSet(df1)
  THEN /\ erro' = ErroColuna(chave_df1, 1)
       /\ resultado' = SemResultado
       /\ etapas' = <<>>
  ELSE IF chave_df2 \notin ColumnSet(df2)
  THEN /\ erro' = ErroColuna(chave_df2, 2)
       /\ resultado' = SemResultado
       /\ etapas' = <<>>
  ELSE LET df1_copy == Rename(AddPrefix(df1, "df1_"), "df1_" \o chave_df1, "chave_juncao")
           df2_copy == Rename(AddPrefix(df2, "df2_"), "df2_" \o chave_df2, "chave_juncao")
       IN /\ MergeOuErro(df1_copy, df2_copy, "chave_juncao", "chave_juncao", metodo,
                         <<"_x", "_y">>)
          /\ etapas' = <<"copy", "add_prefix", "rename", "merge">>

\* cruzar_dataframes working on df1 itself: the prefix and the rename are
\* applied to the caller's table (no copy, the new names assigned in place)
CruzarDataframesNoLugar ==
  /\ op \in {"init", "chaves"}
  /\ \E chave_df1 \in Chaves, chave_df2 \in Chaves, metodo \in Metodos :
       /\ CruzarDataframesDe(chave_df1, chave_df2, metodo)
       /\ args' = [chave1 |-> chave_df1, chave2 |-> chave_df2, metodo |-> metodo]
       /\ df1' = IF chave_df1 \in ColumnSet(df1) /\ chave_df2 \in ColumnSet(df2)
                 THEN Rename(AddPrefix(df1, "df1_"), "df1_" \o chave_df1, "chave_juncao")
                 ELSE df1
  /\ op' = "cruzar_dataframes"
  /\ metricas' = SemMetricas
  /\ UNCHANGED <<df2, chaves, chaves_comuns>>
  /\ UNCHANGED <<vars_sessao, vars_cliente>>

CruzarDataframes ==
  /\ op \in {"init", "chaves"}
  /\ \E chave_df1 \in Chaves, chave_df2 \in Chaves, metodo \in Metodos :
       /\ CruzarDataframesDe(chave_df1, chave_df2, metodo)
       /\ args' = [chave1 |-> chave_df1, chave2 |-> chave_df2, metodo |-> metodo]
  /\ op' = "cruzar_dataframes"
  /\ metricas' = SemMetricas
  /\ UNCHANGED <<df1, df2, chaves, chaves_comuns>>
  /\ UNCHANGED <<vars_sessao, vars_cliente>>

CruzarDadosDe(coluna_df1, coluna_df2, metodo, sufixos) ==
  IF coluna_df1 \notin ColumnSet(df1)
  THEN /\ erro' = ErroColuna(coluna_df1, 1)
       /\ resultado' = SemResultado
       /\ etapas' = <<>>
  ELSE IF coluna_df2 \notin ColumnSet(df2)
  THEN /\ erro' = ErroColuna(coluna_df2, 2)
       /\ resultado' = SemResultado
       /\ etapas' = <<>>
  ELSE IF metodo \notin Range(MetodosValidos)
  THEN /\ erro' = ErroMetodo
       /\ resultado' = SemResultado
       /\ etapas' = <<>>
  ELSE /\ MergeOuErro(df1, df2, coluna_df1, coluna_df2, metodo, sufixos)
       /\ etapas' = <<"merge">>

CruzarDados ==
  /\ op \in {"init", "chaves"}
  /\ \E coluna_df1 \in Chaves, coluna_df2 \in Chaves, metodo \in Metodos :
       /\ CruzarDadosDe(coluna_df1, coluna_df2, metodo, <<"_1", "_2">>)
       /\ args' = [chave1 |-> coluna_df1, chave2 |-> coluna_df2, metodo |-> metodo]
  /\ op' = "cruzar_dados"
  /\ metricas' = SemMetricas
  /\ UNCHANGED <<df1, df2, chaves, chaves_comuns>>
  /\ UNCHANGED <<vars_sessao, vars_cliente>>

(***************************************************************************)
(* Input tables of the join: a column "id" of any keys and, in some        *)
(* tables, a column "codigo" after it; either can be named as the key.     *)
(***************************************************************************)
ValoresChave == {NULO, PyStr(1), PyStr(2)}

ColunasChave(n) ==
  { [kind |-> "O", vals |-> s] : s \in [1..n -> ValoresChave] }
    \cup { [kind |-> "i", vals |-> [i \in 1..n |-> PyInt(1)]] }

ColunasCarga(n) ==
  { [kind |-> "O", vals |-> [i \in 1..n |-> PyStr(1)]],
    [kind |-> "O", vals |-> [i \in 1..n |-> IF i = 1 THEN NULO ELSE PyStr(1)]] }

TabelasCruzarDe(n) ==
  { [n |-> n, cols |-> <<Nomeada("id", c)>>] : c \in ColunasChave(n) }
    \cup { [n |-> n, cols |-> <<Nomeada("id", c), Nomeada("codigo", d)>>] :
             c \in ColunasChave(n), d \in ColunasCarga(n) }

TabelasCruzar == UNION { TabelasCruzarDe(n) : n \in 0..MaxLinhasCruzar }

InitCruzar ==
  /\ df1 \in TabelasCruzar
  /\ df2 \in TabelasCruzar
  /\ op = "init"
  /\ erro = SemErro
  /\ chaves = <<>>
  /\ chaves_comuns = <<>>
  /\ args = SemArgs
  /\ resultado = SemResultado
  /\ etapas = <<>>
  /\ metricas = SemMetricas
  /\ SessaoVazia
  /\ ClienteOcioso

NextCruzar == CruzarDataframes \/ CruzarDados

SpecCruzar == InitCruzar /\ [][NextCruzar]_vars

(***************************************************************************)
(* Quality scoring: DataCrosser.avaliar_qualidade_cruzamento of            *)
(* utils/data_crosser.py and of app_completo.py.  A number of the report   *)
(* is kept as the fraction num/den; den = 0 is the float nan.              *)
(***************************************************************************)
Fracao(num, den) == [num |-> num, den |-> den]

Inteiro(k) == Fracao(k, 1)

\* numpy.int64(0) / 0: nan, with a RuntimeWarning and no exception
NaN == Fracao(0, 0)

IsNaN(x) == x.den = 0

\* DataFrame.isna().sum().sum(): the missing cells of a table
ContarNulos(df) ==
  Cardinality({c \in (1..Len(df.cols)) \X (1..df.n) : IsNa(df.cols[c[1]].vals[c[2]])})

\* the quotient taken without the test of the divisor
TaxaSemGuarda(n_linhas_resultado, n_linhas_df) ==
  Fracao(n_linhas_resultado, n_linhas_df)

\* n_linhas_resultado / n_linhas_df if n_linhas_df > 0 else 0
Taxa(n_linhas_resultado, n_linhas_df) ==
  IF n_linhas_df > 0 THEN Fracao(n_linhas_resultado, n_linhas_df) ELSE Inteiro(0)

\* (linhas_resultado / linhas_df) * 100 if linhas_df > 0 else 0
TaxaPorCento(linhas_resultado, linhas_df) ==
  IF linhas_df > 0 THEN Fracao(100 * linhas_resultado, linhas_df) ELSE Inteiro(0)

\* 1 - (isna().sum().sum() / (shape[0] * shape[1])): the divisor is not
\* tested, and the numpy quotient 0 / 0 is nan
Completude(df_resultado) ==
  LET celulas == df_resultado.n * Len(df_resultado.cols)
  IN IF celulas = 0 THEN NaN
     ELSE Fracao(celulas - ContarNulos(df_resultado), celulas)

\* the mean with the two rates only (completude left out of the sum)
QualidadeGeralSemCompletude(taxa_df1, taxa_df2, completude) ==
  Fracao(taxa_df1.num * taxa_df2.den + taxa_df2.num * taxa_df1.den,
         2 * taxa_df1.den * taxa_df2.den)

\* (taxa_df1 + taxa_df2 + completude) / 3; nan when a term is nan
QualidadeGeral(taxa_df1, taxa_df2, completude) ==
  IF IsNaN(taxa_df1) \/ IsNaN(taxa_df2) \/ IsNaN(completude) THEN NaN
  ELSE Fracao(taxa_df1.num * taxa_df2.den * completude.den
                + taxa_df2.num * taxa_df1.den * completude.den
                + completude.num * taxa_df1.den * taxa_df2.den,
              3 * taxa_df1.den * taxa_df2.den * completude.den)

\* the dict utils/data_crosser.py returns
Qualidade(df_resultado, df1_original, df2_original) ==
  LET n_linhas_df1 == df1_original.n
      n_linhas_df2 == df2_original.n
      n_linhas_resultado == df_resultado.n
      taxa_df1 == Taxa(n_linhas_resultado, n_linhas_df1)
      taxa_df2 == Taxa(n_linhas_resultado, n_linhas_df2)
      completude == Completude(df_resultado)
  IN [n_linhas_df1 |-> n_linhas_df1,
      n_linhas_df2 |-> n_linhas_df2,
      n_linhas_resultado |-> n_linhas_resultado,
      taxa_correspondencia_df1 |-> taxa_df1,
      taxa_correspondencia_df2 |-> taxa_df2,
      completude |-> completude,
      qualidade_geral |-> QualidadeGeral(taxa_df1, taxa_df2, completude)]

\* the dict app_completo.py returns
QualidadeApp(t1, t2, df_resultado) ==
  [linhas_df1 |-> t1.n,
   linhas_df2 |-> t2.n,
   linhas_resultado |-> df_resultado.n,
   taxa_correspondencia_df1 |-> TaxaPorCento(df_resultado.n, t1.n),
   taxa_correspondencia_df2 |-> TaxaPorCento(df_resultado.n, t2.n),
   colunas_df1 |-> Len(t1.cols),
   colunas_df2 |-> Len(t2.cols),
   colunas_resultado |-> Len(df_resultado.cols)]

\* pages/02_Cruzamento_Dados.py: the report of the table cruzar_dataframes returned
AvaliarQualidadeCruzamento ==
  /\ op = "cruzar_dataframes"
  /\ resultado.ok
  /\ metricas' = Qualidade(resultado.tabela, df1, df2)
  /\ op' = "avaliar_qualidade"
  /\ erro' = SemErro
  /\ UNCHANGED <<df1, df2, chaves, chaves_comuns, args, resultado, etapas>>
  /\ UNCHANGED <<vars_sessao, vars_cliente>>

\* app_completo.py: the report of the table cruzar_dados returned
AvaliarQualidadeCruzamentoApp ==
  /\ op = "cruzar_dados"
  /\ resultado.ok
  /\ metricas' = QualidadeApp(df1, df2, resultado.tabela)
  /\ op' = "avaliar_qualidade_app"
  /\ erro' = SemErro
  /\ UNCHANGED <<df1, df2, chaves, chaves_comuns, args, resultado, etapas>>
  /\ UNCHANGED <<vars_sessao, vars_cliente>>

NextQualidade ==
  \/ CruzarDataframes
  \/ CruzarDados
  \/ AvaliarQualidadeCruzamento
  \/ AvaliarQualidadeCruzamentoApp

SpecQualidade == InitCruzar /\ [][NextQualidade]_vars

(***************************************************************************)
(* The calls in any order on one pair of tables: key discovery at any      *)
(* time, a join after the start or after a discovery, the quality report   *)
(* after the join it scores (pages/02_Cruzamento_Dados.py, app_completo.py).*)
(***************************************************************************)
\* rows of a table enumerated exhaustively for sequences of calls
MaxLinhasPipeline == 1

\* key columns of n rows: the codes "1".."n", the codes "2".."n+1", and the
\* codes "1".."n" with the first one missing
ColunasChavePipeline(n) ==
  { [kind |-> "O", vals |-> [i \in 1..n |-> PyStr(i)]],
    [kind |-> "O", vals |-> [i \in 1..n |-> PyStr(i + 1)]],
    [kind |-> "O", vals |-> [i \in 1..n |-> IF i = 1 THEN NULO ELSE PyStr(i)]] }

TabelasPipelineDe(n) ==
  { [n |-> n, cols |-> <<Nomeada("id", c)>>] : c \in ColunasChavePipeline(n) }
    \cup { [n |-> n, cols |-> <<Nomeada("id", c), Nomeada("codigo", d)>>] :
             c \in ColunasChavePipeline(n), d \in ColunasCarga(n) }

TabelasPipeline == UNION { TabelasPipelineDe(n) : n \in 0..MaxLinhasPipeline }

InitPipeline ==
  /\ df1 \in TabelasPipeline
  /\ df2 \in TabelasPipeline
  /\ op = "init"
  /\ erro = SemErro
  /\ chaves = <<>>
  /\ chaves_comuns = <<>>
  /\ args = SemArgs
  /\ resultado = SemResultado
  /\ etapas = <<>>
  /\ metricas = SemMetricas
  /\ SessaoVazia
  /\ ClienteOcioso

NextPipeline ==
  \/ IdentificarChavesPotenciais
  \/ CruzarDataframes
  \/ CruzarDados
  \/ AvaliarQualidadeCruzamento
  \/ AvaliarQualidadeCruzamentoApp

SpecPipeline == InitPipeline /\ [][NextPipeline]_vars

(***************************************************************************)
(* The crossing page: pages/02_Cruzamento_Dados.py (main) and              *)
(* pagina_cruzamento_dados of app_completo.py.  df1 and df2 are the tables *)
(* of the two datasets selected in the page.                               *)
(***************************************************************************)
\* rows of a table loaded into the session
MaxLinhasSessao == 1
\* entries the session holds
MaxEntradas == 3

\* key columns of n rows: the codes "1".."n", whole or with the first one missing
ColunasChaveSessao(n) ==
  { [kind |-> "O", vals |-> [i \in 1..n |-> PyStr(i)]],
    [kind |-> "O", vals |-> [i \in 1..n |-> IF i = 1 THEN NULO ELSE PyStr(i)]] }

\* a column of ints
ColunaInteira(n) == [kind |-> "i", vals |-> [i \in 1..n |-> PyInt(1)]]

TabelasSessaoDe(n) ==
  { [n |-> n, cols |-> <<Nomeada("id", c)>>] : c \in ColunasChaveSessao(n) }
    \cup { [n |-> n, cols |-> <<Nomeada("id", c), Nomeada("codigo", ColunaInteira(n))>>] :
             c \in ColunasChaveSessao(n) }

\* the empty tables and the tables of MaxLinhasSessao rows
TabelasSessao == TabelasSessaoDe(0) \cup TabelasSessaoDe(MaxLinhasSessao)

\* the methods chosen in the page, out of the four it offers
MetodosDaPagina == {"inner", "outer"}

\* the second dataset loaded: codes and an int for each of them
TabelaDeCodigos ==
  [n |-> MaxLinhasSessao,
   cols |-> <<Nomeada("id", [kind |-> "O", vals |-> [i \in 1..MaxLinhasSessao |-> PyStr(i)]]),
              Nomeada("codigo", ColunaInteira(MaxLinhasSessao))>>]

\* the datasets loaded before the page is opened
NomesCarregados == {"A", "B"}

\* st.session_state.dataframes[nome] = {"data": df, "metadados": metadados};
\* the entry of app_completo.py carries the time of the clock as well
AdicionarDataframeSessao(s, nome, df, metadados) ==
  [k \in DOMAIN s \cup {nome} |->
     IF k = nome THEN [data |-> df, metadados |-> metadados] ELSE s[k]]

\* the selectboxes of the two datasets, the second one offering every name
\* but the first, and the script reading their tables
Selecionar ==
  /\ \E a \in DOMAIN sessao : \E b \in DOMAIN sessao \ {a} :
       /\ df1_nome' = a
       /\ df2_nome' = b
       /\ df1' = sessao[a].data
       /\ df2' = sessao[b].data
  /\ op' = "selecionar"
  /\ erro' = SemErro
  /\ chaves' = <<>>
  /\ args' = SemArgs
  /\ resultado' = SemResultado
  /\ etapas' = <<>>
  /\ metricas' = SemMetricas
  /\ mensagem' = ""
  /\ UNCHANGED <<chaves_comuns, sessao>>
  /\ UNCHANGED vars_cliente

\* the button of pages/02 is drawn when identificar_chaves_potenciais
\* returned a non-empty list for the selected tables
BotaoVisivel ==
  /\ ~LevantaDivisao(df1, df2)
  /\ \E ordem \in OrdensDe(ColunasComuns(df1, df2)) :
       ChavesPotenciais(df1, df2, ordem) # <<>>

\* the session accepts the entry: it is there already or there is room
Cabe(nome) == nome \in DOMAIN sessao \/ Cardinality(DOMAIN sessao) < MaxEntradas

\* f"Cruzamento {df1_nome} + {df2_nome}"
NomeResultado(a, b) == "Cruzamento " \o a \o " + " \o b

\* f"Cruzamento_{df1_nome}_{df2_nome}"
NomeResultadoApp(a, b) == "Cruzamento_" \o a \o "_" \o b

\* what follows the join inside the try of the click, the result stored
\* before the quality evaluation (and so also when the join raised)
AposCruzamentoSemEsperar(nome_resultado, metadados, qualidade) ==
  /\ metricas' = IF erro' = SemErro THEN qualidade ELSE SemMetricas
  /\ sessao' = AdicionarDataframeSessao(sessao, nome_resultado, resultado'.tabela, metadados)
  /\ mensagem' = IF erro' = SemErro THEN "success" ELSE "error"

\* what follows the join inside the try of the click: the quality report
\* and the entry of the session when the join returned, st.error when it raised
AposCruzamento(nome_resultado, metadados, qualidade) ==
  IF erro' = SemErro
  THEN /\ metricas' = qualidade
       /\ sessao' = AdicionarDataframeSessao(sessao, nome_resultado, resultado'.tabela,
                                             metadados)
       /\ mensagem' = "success"
  ELSE /\ metricas' = SemMetricas
       /\ sessao' = sessao
       /\ mensagem' = "error"

\* the click on "Realizar Cruzamento" in pages/02_Cruzamento_Dados.py
RealizarCruzamento ==
  /\ df1_nome # "" /\ df2_nome # ""
  /\ BotaoVisivel
  /\ Cabe(NomeResultado(df1_nome, df2_nome))
  /\ \E chave_df1 \in ColumnSet(df1), chave_df2 \in ColumnSet(df2),
        metodo \in MetodosDaPagina :
       /\ CruzarDataframesDe(chave_df1, chave_df2, metodo)
       /\ args' = [chave1 |-> chave_df1, chave2 |-> chave_df2, metodo |-> metodo]
       /\ AposCruzamento(NomeResultado(df1_nome, df2_nome),
                         [origem |-> "Cruzamento", df1 |-> df1_nome, df2 |-> df2_nome,
                          metodo |-> metodo],
                         Qualidade(resultado'.tabela, df1, df2))
  /\ op' = "realizar_cruzamento"
  /\ UNCHANGED <<df1, df2, chaves, chaves_comuns, df1_nome, df2_nome>>
  /\ UNCHANGED vars_cliente

\* the click on "Realizar Cruzamento" in pagina_cruzamento_dados of app_completo.py
RealizarCruzamentoApp ==
  /\ df1_nome # "" /\ df2_nome # ""
  /\ Cabe(NomeResultadoApp(df1_nome, df2_nome))
  /\ \E coluna_df1 \in ColumnSet(df1), coluna_df2 \in ColumnSet(df2),
        metodo \in MetodosDaPagina :
       /\ CruzarDadosDe(coluna_df1, coluna_df2, metodo,
                        <<"_" \o df1_nome, "_" \o df2_nome>>)
       /\ args' = [chave1 |-> coluna_df1, chave2 |-> coluna_df2, metodo |-> metodo]
       /\ AposCruzamento(NomeResultadoApp(df1_nome, df2_nome),
                         [tipo |-> "cruzamento", fonte1 |-> df1_nome, fonte2 |-> df2_nome,
                          metodo |-> metodo, coluna1 |-> coluna_df1,
                          coluna2 |-> coluna_df2],
                         QualidadeApp(df1, df2, resultado'.tabela))
  /\ op' = "realizar_cruzamento_app"
  /\ UNCHANGED <<df1, df2, chaves, chaves_comuns, df1_nome, df2_nome>>
  /\ UNCHANGED vars_cliente

\* two datasets were loaded and the page shows them selected
InitPagina ==
  /\ df1 \in TabelasSessao
  /\ df2 = TabelaDeCodigos
  /\ op = "init"
  /\ erro = SemErro
  /\ chaves = <<>>
  /\ chaves_comuns = <<>>
  /\ args = SemArgs
  /\ resultado = SemResultado
  /\ etapas = <<>>
  /\ metricas = SemMetricas
  /\ sessao = [k \in NomesCarregados |->
                 [data |-> IF k = "A" THEN df1 ELSE df2, metadados |-> [origem |-> "dados.gov.br"]]]
  /\ df1_nome = "A"
  /\ df2_nome = "B"
  /\ mensagem = ""
  /\ ClienteOcioso

NextPagina ==
  \/ Selecionar
  \/ RealizarCruzamento
  \/ RealizarCruzamentoApp

SpecPagina == InitPagina /\ [][NextPagina]_vars

(***************************************************************************)
(* The rate-limited API clients: PortalTransparenciaAPI (api/transparencia.py)*)
(* and CNDPAPI (api/cndp.py).  A call is started by one action and goes on *)
(* one HTTP request at a time; the server picks the status and the body of *)
(* each answer.  Time is counted in ticks of a tenth of a second.          *)
(***************************************************************************)
TicksPorSegundo == 10

\* self.rate_limit = 5  (requests per second)
rate_limit == 5

\* 1.0 / self.rate_limit
IntervaloMinimo == TicksPorSegundo \div rate_limit

\* time.sleep(10) after a 429
Espera429 == 10 * TicksPorSegundo

\* datetime.now().year
AnoAtual == 2026

\* ticks that pass between the end of one step and the next request
MaxDecorrido == 2
\* HTTP requests a client sends in one behaviour
MaxPedidos == 3
\* nested calls of _fazer_requisicao / _make_request the interpreter allows
\* (sys.getrecursionlimit() less the depth of the caller)
LimiteRecursao == 2
\* largest page number, page size and page limit a caller passes
MaxPagina == 1
MaxItens == 2
MaxPaginasArg == 1

\* the statuses a server answers with
Status == {200, 401, 403, 404, 429, 500}

\* self.endpoints, the two keys the calls below use, and a name that is no key
Endpoints == {"bolsa-familia-por-municipio", "orgaos-siafi"}
NomesDeEndpoint == {"orgaos-siafi", "orgaos"}

\* an Optional[int]: <<>> is None, <<k>> is k
Nenhum == <<>>
Algum(k) == <<k>>
\* the truth value Python gives an Optional[int]
Verdadeiro(x) == x # Nenhum /\ x[1] # 0

\* the records of a page the server answers with: n records of page p
Registros(p, n) == [k \in 1..n |-> <<p, k>>]

Retornar(valor) == [tipo |-> "return", excecao |-> "", valor |-> valor, attrs |-> <<>>]
RetornarCom(valor, attrs) ==
  [tipo |-> "return", excecao |-> "", valor |-> valor, attrs |-> attrs]
Levantar(excecao) == [tipo |-> "raise", excecao |-> excecao, valor |-> <<>>, attrs |-> <<>>]

\* the call is over
Fim(c) == [c EXCEPT !.pc = "fim"]

\* the limiter without the sleep
RespeitarLimiteTaxaSemEspera(tempo_atual, ultima) == tempo_atual

\* _respeitar_limite_taxa called when time.time() is tempo_atual: the value it
\* leaves in last_request_time.  time.sleep returns no sooner than asked, and
\* a sleep that lasts longer is the same as a later arrival.
RespeitarLimiteTaxa(tempo_atual, ultima) ==
  LET tempo_desde_ultima_requisicao == tempo_atual - ultima
  IN IF tempo_desde_ultima_requisicao < IntervaloMinimo
     THEN tempo_atual + (IntervaloMinimo - tempo_desde_ultima_requisicao)
     ELSE tempo_atual

\* a call of PortalTransparenciaAPI that passed its validation
ChamadaTransparencia(nome, a, endpoint, params, paginar, pagina, itens_por_pagina, max_paginas) ==
  [cliente |-> "transparencia", nome |-> nome, args |-> a, pc |-> "requisicao",
   endpoint |-> endpoint,
   params |-> params, paginar |-> paginar, pagina_inicial |-> pagina,
   itens_por_pagina |-> itens_por_pagina, max_paginas |-> max_paginas,
   pagina_atual |-> pagina, todos_resultados |-> <<>>, profundidade |-> 0]

\* a call that raised before it asked for anything
ChamadaRecusada(cliente, nome, a) ==
  [SemChamada EXCEPT !.cliente = cliente, !.nome = nome, !.args = a, !.pc = "fim"]

\* the client is waiting for the call the behaviour is about
Livre == chamada.pc = "ocioso"

\* consultar_bolsa_familia_por_municipio up to its first request
ArgsBolsaFamilia(codigo_ibge, mes, ano) ==
  [codigo_ibge |-> codigo_ibge, mes |-> mes, ano |-> ano]

\* the call without the upper end of the test of the year
ConsultarBolsaFamiliaPorMunicipioSemAnoAtual(codigo_ibge, mes, ano, pagina, itens_por_pagina, max_paginas) ==
  IF codigo_ibge = "" \/ ~(1 <= mes /\ mes <= 12) \/ ~(2000 <= ano)
  THEN /\ chamada' = ChamadaRecusada("transparencia", "consultar_bolsa_familia_por_municipio",
                                      ArgsBolsaFamilia(codigo_ibge, mes, ano))
       /\ retorno' = Levantar("ValueError")
  ELSE /\ chamada' = ChamadaTransparencia("consultar_bolsa_familia_por_municipio",
                       ArgsBolsaFamilia(codigo_ibge, mes, ano),
                       "/bolsa-familia-por-municipio",
                       [codigoIbge |-> codigo_ibge, mes |-> mes, ano |-> ano],
                       TRUE, pagina, itens_por_pagina, max_paginas)
       /\ retorno' = SemRetorno

ConsultarBolsaFamiliaPorMunicipioDe(codigo_ibge, mes, ano, pagina, itens_por_pagina, max_paginas) ==
  IF codigo_ibge = "" \/ ~(1 <= mes /\ mes <= 12) \/ ~(2000 <= ano /\ ano <= AnoAtual)
  THEN /\ chamada' = ChamadaRecusada("transparencia", "consultar_bolsa_familia_por_municipio",
                                      ArgsBolsaFamilia(codigo_ibge, mes, ano))
       /\ retorno' = Levantar("ValueError")
  ELSE /\ chamada' = ChamadaTransparencia("consultar_bolsa_familia_por_municipio",
                       ArgsBolsaFamilia(codigo_ibge, mes, ano),
                       "/bolsa-familia-por-municipio",
                       [codigoIbge |-> codigo_ibge, mes |-> mes, ano |-> ano],
                       TRUE, pagina, itens_por_pagina, max_paginas)
       /\ retorno' = SemRetorno

ConsultarBolsaFamiliaPorMunicipio ==
  /\ Livre
  /\ \E codigo_ibge \in {"", "3550308"}, mes \in {0, 1, 12, 13},
        ano \in {1999, 2000, AnoAtual, AnoAtual + 1},
        pagina \in {1}, itens_por_pagina \in {MaxItens},
        max_paginas \in {Nenhum, Algum(MaxPaginasArg)} :
       ConsultarBolsaFamiliaPorMunicipioDe(codigo_ibge, mes, ano, pagina,
                                           itens_por_pagina, max_paginas)
  /\ UNCHANGED <<relogio, last_request_time, pedidos, arquivos>>
  /\ UNCHANGED <<vars_cruzamento, vars_sessao>>

\* consultar_endpoint_generico up to its first request
ConsultarEndpointGenericoDe(nome_endpoint, paginar, pagina, itens_por_pagina, max_paginas) ==
  IF nome_endpoint \notin Endpoints
  THEN /\ chamada' = ChamadaRecusada("transparencia", "consultar_endpoint_generico",
                                      [nome_endpoint |-> nome_endpoint])
       /\ retorno' = Levantar("ValueError")
  ELSE /\ chamada' = ChamadaTransparencia("consultar_endpoint_generico",
                       [nome_endpoint |-> nome_endpoint],
                       "/" \o nome_endpoint, <<>>,
                       paginar, pagina, itens_por_pagina, max_paginas)
       /\ retorno' = SemRetorno

ConsultarEndpointGenerico ==
  /\ Livre
  /\ \E nome_endpoint \in NomesDeEndpoint, paginar \in BOOLEAN,
        pagina \in 0..MaxPagina, itens_por_pagina \in 1..MaxItens,
        max_paginas \in {Nenhum} \cup {Algum(k) : k \in 0..MaxPaginasArg} :
       \* the paging arguments are read only when paginar is set
       /\ paginar \/ (pagina = 1 /\ itens_por_pagina = MaxItens /\ max_paginas = Nenhum)
       /\ ConsultarEndpointGenericoDe(nome_endpoint, paginar, pagina,
                                      itens_por_pagina, max_paginas)
  /\ UNCHANGED <<relogio, last_request_time, pedidos, arquivos>>
  /\ UNCHANGED <<vars_cruzamento, vars_sessao>>

\* a search with the offset of the page after the one asked for
ChamadaCNDPSemMenosUm(nome, endpoint, pagina, itens_por_pagina) ==
  [cliente |-> "cndp", nome |-> nome, args |-> <<>>, pc |-> "requisicao",
   endpoint |-> endpoint,
   params |-> [rows |-> itens_por_pagina, start |-> pagina * itens_por_pagina],
   paginar |-> FALSE, pagina_inicial |-> pagina, itens_por_pagina |-> itens_por_pagina,
   max_paginas |-> Nenhum, pagina_atual |-> pagina, todos_resultados |-> <<>>,
   profundidade |-> 0]

\* CNDPAPI.buscar_conjuntos_dados and buscar_recursos_por_formato up to the request
ChamadaCNDP(nome, endpoint, pagina, itens_por_pagina) ==
  [cliente |-> "cndp", nome |-> nome, args |-> <<>>, pc |-> "requisicao",
   endpoint |-> endpoint,
   params |-> [rows |-> itens_por_pagina, start |-> (pagina - 1) * itens_por_pagina],
   paginar |-> FALSE, pagina_inicial |-> pagina, itens_por_pagina |-> itens_por_pagina,
   max_paginas |-> Nenhum, pagina_atual |-> pagina, todos_resultados |-> <<>>,
   profundidade |-> 0]

BuscarConjuntosDados ==
  /\ Livre
  /\ \E pagina \in 0..(MaxPagina + 1), itens_por_pagina \in 1..MaxItens :
       chamada' = ChamadaCNDP("buscar_conjuntos_dados", "/action/package_search",
                              pagina, itens_por_pagina)
  /\ retorno' = SemRetorno
  /\ UNCHANGED <<relogio, last_request_time, pedidos, arquivos>>
  /\ UNCHANGED <<vars_cruzamento, vars_sessao>>

BuscarRecursosPorFormato ==
  /\ Livre
  /\ \E pagina \in 0..(MaxPagina + 1), itens_por_pagina \in 1..MaxItens :
       chamada' = ChamadaCNDP("buscar_recursos_por_formato", "/action/resource_search",
                              pagina, itens_por_pagina)
  /\ retorno' = SemRetorno
  /\ UNCHANGED <<relogio, last_request_time, pedidos, arquivos>>
  /\ UNCHANGED <<vars_cruzamento, vars_sessao>>

\* largest count a CKAN search answers with
MaxCount == 5

\* the params of the request the call sends next
ParamsDoPedido(c) ==
  IF c.cliente = "transparencia" /\ c.paginar
  THEN [params |-> c.params, pagina |-> c.pagina_atual, tamanhoPagina |-> c.itens_por_pagina]
  ELSE [params |-> c.params]

\* the loop without the test of the short page
PaginarResultadosSemPaginaCurta(c, resultados) ==
  IF resultados = <<>>
  THEN [chamada |-> Fim(c), retorno |-> Retornar(c.todos_resultados)]
  ELSE LET todos == c.todos_resultados \o resultados
       IN IF Verdadeiro(c.max_paginas) /\ c.pagina_atual >= c.max_paginas[1]
          THEN [chamada |-> Fim([c EXCEPT !.todos_resultados = todos]),
                retorno |-> Retornar(todos)]
          ELSE [chamada |-> [c EXCEPT !.todos_resultados = todos,
                                      !.pagina_atual = c.pagina_atual + 1,
                                      !.profundidade = 0],
                retorno |-> SemRetorno]

\* one round of the loop of _paginar_resultados, after the page came back
PaginarResultados(c, resultados) ==
  IF resultados = <<>>
  THEN [chamada |-> Fim(c), retorno |-> Retornar(c.todos_resultados)]
  ELSE LET todos == c.todos_resultados \o resultados
       IN IF Verdadeiro(c.max_paginas) /\ c.pagina_atual >= c.max_paginas[1]
          THEN [chamada |-> Fim([c EXCEPT !.todos_resultados = todos]),
                retorno |-> Retornar(todos)]
          ELSE IF Len(resultados) < c.itens_por_pagina
          THEN [chamada |-> Fim([c EXCEPT !.todos_resultados = todos,
                                          !.pagina_atual = c.pagina_atual + 1]),
                retorno |-> Retornar(todos)]
          ELSE [chamada |-> [c EXCEPT !.todos_resultados = todos,
                                      !.pagina_atual = c.pagina_atual + 1,
                                      !.profundidade = 0],
                retorno |-> SemRetorno]

\* the DataFrame a CNDP search returns for count hits of which n are in the page
TabelaCNDP(c, count, n) ==
  IF n = 0
  THEN Retornar(<<>>)
  ELSE RetornarCom(Registros(c.pagina_inicial, n),
                   [total |-> count,
                    pagina_atual |-> c.pagina_inicial,
                    itens_por_pagina |-> c.itens_por_pagina,
                    total_paginas |-> (count + c.itens_por_pagina - 1) \div c.itens_por_pagina])

\* what the call does with the body of a 200 answer: n records, count hits
AposResposta(c, count, n) ==
  IF c.cliente = "cndp"
  THEN [chamada |-> Fim(c), retorno |-> TabelaCNDP(c, count, n)]
  ELSE IF c.paginar
  THEN PaginarResultados(c, Registros(c.pagina_atual, n))
  ELSE [chamada |-> Fim(c), retorno |-> Retornar(Registros(0, n))]

\* return self._fazer_requisicao(endpoint, params): one more frame, or the
\* RecursionError of the interpreter
TentarNovamente(c) ==
  IF c.profundidade + 1 >= LimiteRecursao
  THEN [chamada |-> Fim(c), retorno |-> Levantar("RecursionError")]
  ELSE [chamada |-> [c EXCEPT !.profundidade = c.profundidade + 1], retorno |-> SemRetorno]

\* _fazer_requisicao, one pass through its body: the limiter, the request
\* and what the status of the answer leads to
FazerRequisicao ==
  /\ chamada.pc = "requisicao"
  /\ chamada.cliente \in {"transparencia", "cndp"}
  /\ Len(pedidos) < MaxPedidos
  /\ \E decorrido \in 0..MaxDecorrido, status \in Status,
        count \in 0..MaxCount, n \in 0..MaxItens :
       LET agora == RespeitarLimiteTaxa(relogio + decorrido, last_request_time)
           pedido == [cliente |-> chamada.cliente, endpoint |-> chamada.endpoint,
                      params |-> ParamsDoPedido(chamada), status |-> status, n |-> n]
           depois == IF status = 200 THEN AposResposta(chamada, count, n)
                     ELSE IF status = 429 THEN TentarNovamente(chamada)
                     ELSE [chamada |-> Fim(chamada), retorno |-> Levantar("Exception")]
       IN /\ status = 200 \/ (count = 0 /\ n = 0)
          /\ chamada.cliente = "cndp" \/ count = 0
          /\ n <= count \/ chamada.cliente # "cndp"
          /\ last_request_time' = agora
          /\ pedidos' = Append(pedidos, pedido)
          /\ relogio' = IF status = 429 THEN agora + Espera429 ELSE agora
          /\ chamada' = depois.chamada
          /\ retorno' = depois.retorno
  /\ UNCHANGED arquivos
  /\ UNCHANGED <<vars_cruzamento, vars_sessao>>

(***************************************************************************)
(* The clients without a rate limiter: DadosGovAPI (api/dados_gov.py) and  *)
(* TransparenciaAPI of app_completo.py.                                    *)
(***************************************************************************)
\* time.sleep(60) after a 429
Espera429Longa == 60 * TicksPorSegundo

\* two keys of DadosGovAPI.CATEGORIAS
CATEGORIAS == {"Agricultura", "Cultura e Esporte"}

\* the categories a caller names: the keys and a name that is no key
Categorias == CATEGORIAS \cup {"Habitacao"}

ChamadaSemLimite(cliente, nome, a, endpoint, params) ==
  [SemChamada EXCEPT !.cliente = cliente, !.nome = nome, !.args = a, !.pc = "requisicao",
                     !.endpoint = endpoint, !.params = params]

\* get_tags_por_categoria: the tags of a key, ValueError for any other name
GetTagsPorCategoria ==
  /\ Livre
  /\ \E categoria \in Categorias :
       /\ chamada' = ChamadaRecusada("dados_gov", "get_tags_por_categoria",
                                           [categoria |-> categoria])
       /\ retorno' = IF categoria \notin CATEGORIAS
                     THEN Levantar("ValueError")
                     ELSE Retornar(<<categoria>>)
  /\ UNCHANGED <<relogio, last_request_time, pedidos, arquivos>>
  /\ UNCHANGED <<vars_cruzamento, vars_sessao>>

\* buscar_conjuntos_por_categoria up to the request of buscar_conjuntos_dados
BuscarConjuntosPorCategoria ==
  /\ Livre
  /\ \E categoria \in Categorias :
       IF categoria \notin CATEGORIAS
       THEN /\ chamada' = ChamadaRecusada("dados_gov", "buscar_conjuntos_por_categoria",
                                           [categoria |-> categoria])
            /\ retorno' = Levantar("ValueError")
       ELSE /\ chamada' = ChamadaSemLimite("dados_gov", "buscar_conjuntos_por_categoria",
                                           [categoria |-> categoria],
                                           "action/package_search", <<categoria>>)
            /\ retorno' = SemRetorno
  /\ UNCHANGED <<relogio, last_request_time, pedidos, arquivos>>
  /\ UNCHANGED <<vars_cruzamento, vars_sessao>>

\* obter_amostra_dados up to the request: the ValueError of
\* get_tags_por_categoria is caught by "except Exception" and [] is returned
ObterAmostraDados ==
  /\ Livre
  /\ \E categoria \in Categorias :
       IF categoria \notin CATEGORIAS
       THEN /\ chamada' = ChamadaRecusada("dados_gov", "obter_amostra_dados",
                                           [categoria |-> categoria])
            /\ retorno' = Retornar(<<>>)
       ELSE /\ chamada' = ChamadaSemLimite("dados_gov", "obter_amostra_dados",
                                           [categoria |-> categoria],
                                           "action/package_search", <<categoria>>)
            /\ retorno' = SemRetorno
  /\ UNCHANGED <<relogio, last_request_time, pedidos, arquivos>>
  /\ UNCHANGED <<vars_cruzamento, vars_sessao>>

\* TransparenciaAPI._make_request of app_completo.py, called for an endpoint
AppMakeRequest ==
  /\ Livre
  /\ chamada' = ChamadaSemLimite("app", "_make_request", <<>>,
                              "bolsa-familia-por-municipio", <<>>)
  /\ retorno' = SemRetorno
  /\ UNCHANGED <<relogio, last_request_time, pedidos, arquivos>>
  /\ UNCHANGED <<vars_cruzamento, vars_sessao>>

\* what the caller of _make_request makes of its outcome
AposMakeRequest(c, r) ==
  IF c.nome = "obter_amostra_dados" /\ r.chamada.pc = "fim" /\ r.retorno.tipo = "raise"
  THEN [chamada |-> r.chamada, retorno |-> Retornar(<<>>)]
  ELSE r

\* _make_request, one pass through its body: the request and what the status
\* of the answer leads to
MakeRequest ==
  /\ chamada.pc = "requisicao"
  /\ chamada.cliente \in {"dados_gov", "app"}
  /\ Len(pedidos) < MaxPedidos
  /\ \E decorrido \in 0..MaxDecorrido, status \in Status, n \in 0..MaxItens :
       LET agora == relogio + decorrido
           pedido == [cliente |-> chamada.cliente, endpoint |-> chamada.endpoint,
                      params |-> ParamsDoPedido(chamada), status |-> status, n |-> n]
           depois == IF status = 200
                     THEN [chamada |-> Fim(chamada), retorno |-> Retornar(Registros(0, n))]
                     ELSE IF status = 429 THEN TentarNovamente(chamada)
                     ELSE [chamada |-> Fim(chamada), retorno |-> Levantar("HTTPError")]
       IN /\ status = 200 \/ n = 0
          /\ pedidos' = Append(pedidos, pedido)
          /\ relogio' = IF status = 429 THEN agora + Espera429Longa ELSE agora
          /\ chamada' = AposMakeRequest(chamada, depois).chamada
          /\ retorno' = AposMakeRequest(chamada, depois).retorno
  /\ UNCHANGED <<last_request_time, arquivos>>
  /\ UNCHANGED <<vars_cruzamento, vars_sessao>>

(***************************************************************************)
(* salvar_dados of CNDPAPI and PortalTransparenciaAPI (the same code).     *)
(***************************************************************************)
\* the extension each format is saved with
Extensao(formato) ==
  CASE formato = "csv" -> ".csv"
    [] formato = "excel" -> ".xlsx"
    [] formato = "json" -> ".json"
    [] formato = "pickle" -> ".pkl"

Formatos == {"csv", "excel", "json", "pickle"}

\* the formats a caller names: the four and one that is none of them
FormatosPedidos == Formatos \cup {"xml"}

\* the paths a caller names
Caminhos == {"dados", "saida/dados"}

\* salvar_dados writing the file before it looks at the table
SalvarDadosSemTesteDeVazio(vazio, caminho, formato) ==
  IF formato \in Formatos
  THEN /\ arquivos' = arquivos \cup {caminho \o Extensao(formato)}
       /\ retorno' = Retornar(caminho \o Extensao(formato))
  ELSE /\ arquivos' = arquivos
       /\ retorno' = Levantar("ValueError")

\* salvar_dados(df, caminho, formato); vazio is df.empty
SalvarDadosDe(vazio, caminho, formato) ==
  IF vazio
  THEN /\ arquivos' = arquivos
       /\ retorno' = Retornar("")
  ELSE IF formato \in Formatos
  THEN /\ arquivos' = arquivos \cup {caminho \o Extensao(formato)}
       /\ retorno' = Retornar(caminho \o Extensao(formato))
  ELSE /\ arquivos' = arquivos
       /\ retorno' = Levantar("ValueError")

SalvarDados ==
  /\ Livre
  /\ \E cliente \in {"cndp", "transparencia"}, vazio \in BOOLEAN,
        caminho \in Caminhos, formato \in FormatosPedidos :
       /\ SalvarDadosDe(vazio, caminho, formato)
       /\ chamada' = ChamadaRecusada(cliente, "salvar_dados",
                                      [vazio |-> vazio, caminho |-> caminho,
                                       formato |-> formato])
  /\ UNCHANGED <<relogio, last_request_time, pedidos>>
  /\ UNCHANGED <<vars_cruzamento, vars_sessao>>

\* a client that is new (last_request_time = 0) or sent its last request a
\* moment ago, over a directory that is empty or holds a file saved before
InitCliente ==
  /\ df1 = TabelaVazia
  /\ df2 = TabelaVazia
  /\ op = "init"
  /\ erro = SemErro
  /\ chaves = <<>>
  /\ chaves_comuns = <<>>
  /\ args = SemArgs
  /\ resultado = SemResultado
  /\ etapas = <<>>
  /\ metricas = SemMetricas
  /\ SessaoVazia
  /\ relogio = Epoca
  /\ last_request_time \in {0} \cup {Epoca - decorrido : decorrido \in 0..MaxDecorrido}
  /\ pedidos = <<>>
  /\ chamada = SemChamada
  /\ retorno = SemRetorno
  /\ arquivos \in {{}, {"dados.csv"}}

\* the calls of PortalTransparenciaAPI
NextTransparencia ==
  \/ ConsultarBolsaFamiliaPorMunicipio
  \/ ConsultarEndpointGenerico
  \/ FazerRequisicao

SpecTransparencia == InitCliente /\ [][NextTransparencia]_vars

\* the calls of CNDPAPI, DadosGovAPI and the TransparenciaAPI of the app
NextClientes ==
  \/ BuscarConjuntosDados
  \/ BuscarRecursosPorFormato
  \/ FazerRequisicao
  \/ GetTagsPorCategoria
  \/ BuscarConjuntosPorCategoria
  \/ ObterAmostraDados
  \/ AppMakeRequest
  \/ MakeRequest
  \/ SalvarDados

SpecClientes == InitCliente /\ [][NextClientes]_vars

(***************************************************************************)
(* Properties of key discovery.                                            *)
(***************************************************************************)
Pos(df, nome) == CHOOSE i \in 1..Len(df.cols) : df.cols[i].nome = nome

Grupo(c) == IF c.col1 = c.col2 THEN 1 ELSE 2

\* a comes before b in the order the claim calls the emission order
EmitidoAntes(a, b) ==
  \/ Grupo(a) < Grupo(b)
  \/ /\ Grupo(a) = Grupo(b)
     /\ \/ Pos(df1, a.col1) < Pos(df1, b.col1)
        \/ Pos(df1, a.col1) = Pos(df1, b.col1) /\ Pos(df2, a.col2) < Pos(df2, b.col2)

Retornou(nome) == op = nome /\ erro = SemErro

\* C1: the candidates come back by descending score, and candidates of equal
\* score come in emission order: same-name pairs before cross-name pairs, and
\* inside a group by column position in table 1, then in table 2.
C1_OrdemDeEmissao ==
  Retornou("chaves") =>
    \A i \in 1..Len(chaves), j \in 1..Len(chaves) :
      i < j =>
        /\ ScoreGeq(chaves[i].score, chaves[j].score)
        /\ ScoreEq(chaves[i].score, chaves[j].score) => EmitidoAntes(chaves[i], chaves[j])

\* C2: a call of identificar_chaves_potenciais that follows another call on
\* the same tables returns the same sequence of candidates.
C2_Determinismo ==
  [][(Retornou("chaves") /\ op' = "chaves" /\ erro' = SemErro) => chaves' = chaves]_vars

Emitido(c1, c2) == \E i \in 1..Len(chaves) : chaves[i].col1 = c1 /\ chaves[i].col2 = c2

\* C3 as stated: every column name present in both tables has its exact-name
\* candidate in the result.
C3_TodoNomeComum ==
  Retornou("chaves") => \A c \in ColunasComuns(df1, df2) : Emitido(c, c)

\* C3 as amended: every column name present in both tables whose uniqueness
\* ratio exceeds 0.5 in both tables has exactly one exact-name candidate in
\* the result, whatever its score, also when the score is 0.
C3_NomeComumAceito ==
  op = "chaves" =>
    \A c \in ColunasComuns(df1, df2) :
      (2 * NUnique(Col(df1, c)) > df1.n /\ 2 * NUnique(Col(df2, c)) > df2.n) =>
        Cardinality({i \in 1..Len(chaves) : chaves[i].col1 = c /\ chaves[i].col2 = c}) = 1

\* an accepted common column whose value sets are disjoint was emitted with score 0
C3_Witness ==
  /\ Retornou("chaves")
  /\ \E i \in 1..Len(chaves) :
       /\ chaves[i].col1 = chaves[i].col2
       /\ chaves[i].score.num = 0
       /\ DropNa(Col(df1, chaves[i].col1)) \cap DropNa(Col(df2, chaves[i].col1)) = {}

\* C4: every emitted score is a fraction in [0, 1], and the score of every
\* cross-name candidate is strictly greater than 1/10.
C4_LimitesDoScore ==
  op = "chaves" =>
    \A i \in 1..Len(chaves) :
      /\ chaves[i].score.den > 0
      /\ 0 <= chaves[i].score.num
      /\ chaves[i].score.num <= chaves[i].score.den
      /\ chaves[i].col1 # chaves[i].col2 => 10 * chaves[i].score.num > chaves[i].score.den

\* two text columns of different names and high cardinality overlap in
\* exactly 1/10 of the larger value set, and the pair was not emitted
C4_Witness ==
  /\ Retornou("chaves")
  /\ \E i \in 1..Len(df1.cols), j \in 1..Len(df2.cols) :
       LET c1 == df1.cols[i]
           c2 == df2.cols[j]
           sc == Score(DropNaStr(c1), DropNaStr(c2))
       IN /\ c1.nome # c2.nome
          /\ c1.kind = "O" /\ c2.kind = "O"
          /\ 2 * NUnique(c1) > df1.n /\ 2 * NUnique(c2) > df2.n
          /\ sc.num = 1 /\ sc.den = 10
          /\ ~Emitido(c1.nome, c2.nome)

\* C5: a common-name column is accepted as a key candidate exactly when its
\* uniqueness ratio exceeds 0.5 in both tables (identificar_chaves_comuns).
C5_AceitaSeAmbas ==
  Retornou("comuns") =>
    \A c \in ColunasComuns(df1, df2) :
      (c \in Range(chaves_comuns)) <=>
        (2 * NUnique(Col(df1, c)) > df1.n /\ 2 * NUnique(Col(df2, c)) > df2.n)

\* C5 on identificar_chaves_potenciais: accepted exactly when both ratios
\* exceed 0.5, with score |V1 \cap V2| / max(|V1|, |V2|).
C5_Passo1 ==
  Retornou("chaves") =>
    \A c \in ColunasComuns(df1, df2) :
      LET v1 == DropNa(Col(df1, c))
          v2 == DropNa(Col(df2, c))
      IN /\ Emitido(c, c) <=> (2 * Cardinality(v1) > df1.n /\ 2 * Cardinality(v2) > df2.n)
         /\ \A i \in 1..Len(chaves) :
              (chaves[i].col1 = c /\ chaves[i].col2 = c) =>
                /\ chaves[i].score.num = Cardinality(v1 \cap v2)
                /\ chaves[i].score.den = Max(Cardinality(v1), Cardinality(v2))

\* C6: key discovery never raises, whatever the row counts of its tables.
C6_NuncaLevanta == op = "chaves" => erro = SemErro

(***************************************************************************)
(* Properties of join execution.                                           *)
(***************************************************************************)
Cruzou == op \in {"cruzar_dataframes", "cruzar_dados"}

Ausente1 == args.chave1 \notin ColumnSet(df1)

Ausente2 == args.chave2 \notin ColumnSet(df2)

\* C7: a join called with a key that is no column of its table raises the
\* error that names the missing column and its table (table 1 first), does
\* none of the join steps, returns no table and leaves both inputs as they were.
C7_ValidacaoDeChaves ==
  [][(Cruzou' /\ (Ausente1' \/ Ausente2')) =>
       /\ erro' = IF Ausente1' THEN ErroColuna(args'.chave1, 1) ELSE ErroColuna(args'.chave2, 2)
       /\ erro'.tipo = "ValueError"
       /\ etapas' = <<>>
       /\ resultado' = SemResultado
       /\ df1' = df1 /\ df2' = df2]_vars

\* a join raised for a key missing from table 2 while the key of table 1 exists
C7_Witness ==
  /\ Cruzou /\ ~Ausente1 /\ Ausente2
  /\ erro.causa = "coluna" /\ erro.tabela = 2 /\ erro.coluna = args.chave2

\* C8: a join mode outside inner, left, right, outer makes the join fail
\* before any copy, rename or merge, with an error that lists the valid modes.
C8_MetodoInvalido ==
  (Cruzou /\ args.metodo \notin {"inner", "left", "right", "outer"}) =>
    /\ erro # SemErro
    /\ etapas = <<>>
    /\ (~Ausente1 /\ ~Ausente2) => erro.modos = <<"inner", "left", "right", "outer">>

\* C9: no result row pairs a row of table 1 with a row of table 2 whose key
\* values are both missing.
C9_NuloNaoCasa ==
  (Cruzou /\ resultado.ok) =>
    \A r \in 1..Len(resultado.linhas) :
      LET p == resultado.linhas[r]
      IN ~(/\ p[1] # 0 /\ p[2] # 0
           /\ IsNa(Col(df1, args.chave1).vals[p[1]])
           /\ IsNa(Col(df2, args.chave2).vals[p[2]]))

Ocorrencias(vals, v) == Cardinality({i \in 1..Len(vals) : vals[i] = v})

\* the key column of table 1 in the result: the left columns come first, in order
ChaveNoResultado == resultado.tabela.cols[Pos(df1, args.chave1)]

\* C10: in the result of an inner join a key value that occurs m times in
\* table 1 and n times in table 2 is the key of exactly m * n rows.
C10_ProdutoCartesiano ==
  (Cruzou /\ resultado.ok /\ args.metodo = "inner") =>
    \A v \in ValoresChave \cup {PyInt(1)} :
      ~IsNa(v) =>
        Ocorrencias(ChaveNoResultado.vals, v)
          = Ocorrencias(Col(df1, args.chave1).vals, v) * Ocorrencias(Col(df2, args.chave2).vals, v)

\* an inner join on a key value that occurs twice in each table
C10_Witness ==
  /\ Cruzou /\ resultado.ok /\ args.metodo = "inner"
  /\ \E v \in ValoresChave :
       /\ ~IsNa(v)
       /\ Ocorrencias(Col(df1, args.chave1).vals, v) = 2
       /\ Ocorrencias(Col(df2, args.chave2).vals, v) = 2
       /\ Ocorrencias(ChaveNoResultado.vals, v) = 4

\* the key columns the join was called with
Chave1 == Col(df1, args.chave1).vals

Chave2 == Col(df2, args.chave2).vals

\* rows of the join of the two tables on the same key pair in mode metodo
LinhasDoModo(metodo) == Len(LinhasMerge(Chave1, Chave2, metodo))

\* C11: for any two tables and any key pair the row counts of the four joins
\* satisfy outer >= left >= inner and outer >= right >= inner; the table a
\* join returns has the row count of its mode.
C11_LeiDoSuperconjunto ==
  (Cruzou /\ resultado.ok) =>
    /\ resultado.tabela.n = LinhasDoModo(args.metodo)
    /\ LinhasDoModo("outer") >= LinhasDoModo("left")
    /\ LinhasDoModo("left") >= LinhasDoModo("inner")
    /\ LinhasDoModo("outer") >= LinhasDoModo("right")
    /\ LinhasDoModo("right") >= LinhasDoModo("inner")

\* an outer join returned more rows than the left and the right join of the
\* same tables, and each of these more than the inner join
C11_Witness ==
  /\ Cruzou /\ resultado.ok /\ args.metodo = "outer"
  /\ resultado.tabela.n > LinhasDoModo("left")
  /\ resultado.tabela.n > LinhasDoModo("right")
  /\ LinhasDoModo("left") > LinhasDoModo("inner")
  /\ LinhasDoModo("right") > LinhasDoModo("inner")
  /\ LinhasDoModo("inner") > 0

\* the result rows that hold row i of table 1
LinhasDe1(i) == {r \in 1..Len(resultado.linhas) : resultado.linhas[r][1] = i}

\* the result columns that come from table 2: they follow the columns of table 1
ColunasDeOrigem2 == (Len(df1.cols) + 1)..Len(resultado.tabela.cols)

\* relational equality of keys: a missing key equals no key
CasaSemNulos(i, j) == ~IsNa(Chave1[i]) /\ Chave1[i] = Chave2[j]

\* the equality pandas.merge joins on
CasaNoMerge(i, j) == ChavesCasam(Chave1[i], Chave2[j])

\* what C12 says of a left join, for a given meaning of "row i matches row j"
LeftJoinCom(Casa(_, _)) ==
  /\ \A i \in 1..df1.n : LinhasDe1(i) # {}
  /\ \A i \in 1..df1.n :
       (\A j \in 1..df2.n : ~Casa(i, j)) =>
         /\ Cardinality(LinhasDe1(i)) = 1
         /\ \A r \in LinhasDe1(i), c \in ColunasDeOrigem2 :
              IsNa(resultado.tabela.cols[c].vals[r])
  /\ (\A i \in 1..df1.n : Cardinality({j \in 1..df2.n : Casa(i, j)}) <= 1) =>
       resultado.tabela.n = df1.n

\* C12: in a left join every row of table 1 appears in the result; a row of
\* table 1 whose key matches no row of table 2 (a missing key matches none)
\* appears exactly once with every table-2 column missing; and when no key of
\* table 1 matches more than one row of table 2 the result has rows(table 1) rows.
C12_LeftJoin ==
  (Cruzou /\ resultado.ok /\ args.metodo = "left") => LeftJoinCom(CasaSemNulos)

\* C12 with "matches" read as pandas.merge matches keys (missing with missing)
C12_LeftJoinDoMerge ==
  (Cruzou /\ resultado.ok /\ args.metodo = "left") => LeftJoinCom(CasaNoMerge)

\* C13: the result of a join has every column of table 1 and every column of
\* table 2 under distinct names, the two key columns included: the key of
\* table 1 and the key of table 2 are two columns, never merged into one.
C13_ChaveNaoFundida ==
  (Cruzou /\ resultado.ok) =>
    /\ Len(resultado.tabela.cols) = Len(df1.cols) + Len(df2.cols)
    /\ Cardinality(ColumnSet(resultado.tabela)) = Len(resultado.tabela.cols)

\* C13 for cruzar_dados called with key columns of different names: both key
\* columns are in the result.
C13_NomesDiferentes ==
  (op = "cruzar_dados" /\ resultado.ok /\ args.chave1 # args.chave2) =>
    /\ Len(resultado.tabela.cols) = Len(df1.cols) + Len(df2.cols)
    /\ Cardinality(ColumnSet(resultado.tabela)) = Len(resultado.tabela.cols)

\* C14: the rows of a join result that come from table 1 are in table-1 row
\* order, and the rows that come from table 2 alone (outer, right) follow
\* them, in table-2 row order, whatever the key values are.
C14_OrdemDasLinhas ==
  (Cruzou /\ resultado.ok) =>
    \A r \in 1..Len(resultado.linhas), s \in 1..Len(resultado.linhas) :
      r < s =>
        LET p == resultado.linhas[r]
            q == resultado.linhas[s]
        IN /\ (p[1] # 0 /\ q[1] # 0) => p[1] <= q[1]
           /\ p[1] = 0 => q[1] = 0
           /\ (p[1] = 0 /\ q[1] = 0) => p[2] < q[2]

(***************************************************************************)
(* Properties of quality scoring.                                          *)
(***************************************************************************)
Avaliou == op \in {"avaliar_qualidade", "avaliar_qualidade_app"}

\* x is a number and equals num / den
FracaoIgual(x, num, den) == x.den # 0 /\ x.num * den = num * x.den

\* rows(result) / rows(table), and 0 for a table of 0 rows
TaxaEsperada(x, linhas) ==
  IF linhas = 0 THEN FracaoIgual(x, 0, 1) ELSE FracaoIgual(x, resultado.tabela.n, linhas)

SemRepetidos(vals) == \A i \in 1..Len(vals), j \in 1..Len(vals) : vals[i] = vals[j] => i = j

\* C15: the match rate of table i in the quality report is the fraction
\* rows(result) / rows(table i), and 0 when table i has 0 rows; after an inner
\* join on keys unique in both tables that share k values the result has k
\* rows (and so the rates are k / rows(table 1) and k / rows(table 2)).
C15_TaxaDeCorrespondencia ==
  Avaliou =>
    /\ TaxaEsperada(metricas.taxa_correspondencia_df1, df1.n)
    /\ TaxaEsperada(metricas.taxa_correspondencia_df2, df2.n)
    /\ (args.metodo = "inner" /\ SemRepetidos(Chave1) /\ SemRepetidos(Chave2)) =>
         resultado.tabela.n
           = Cardinality(DropNa(Col(df1, args.chave1)) \cap DropNa(Col(df2, args.chave2)))

\* C15 for avaliar_qualidade_cruzamento of utils/data_crosser.py: both rates
\* are rows(result) / rows(table i), and 0 for a table of 0 rows.
C15_TaxaDoCrosser ==
  op = "avaliar_qualidade" =>
    /\ TaxaEsperada(metricas.taxa_correspondencia_df1, df1.n)
    /\ TaxaEsperada(metricas.taxa_correspondencia_df2, df2.n)

CelulasDoResultado == resultado.tabela.n * Len(resultado.tabela.cols)

\* C16: the completeness of the report is 1 - missing cells / (rows * columns)
\* of the result, and 1 when the result has 0 cells; no number of the report
\* is undefined.
C16_Completude ==
  op = "avaliar_qualidade" =>
    /\ IF CelulasDoResultado = 0
       THEN FracaoIgual(metricas.completude, 1, 1)
       ELSE FracaoIgual(metricas.completude,
                        CelulasDoResultado - ContarNulos(resultado.tabela), CelulasDoResultado)
    /\ ~IsNaN(metricas.taxa_correspondencia_df1)
    /\ ~IsNaN(metricas.taxa_correspondencia_df2)
    /\ ~IsNaN(metricas.qualidade_geral)

\* C16 for a result that has cells: the completeness is the fraction of its
\* cells that are not missing.
C16_ComCelulas ==
  (op = "avaliar_qualidade" /\ CelulasDoResultado > 0) =>
    /\ FracaoIgual(metricas.completude,
                   CelulasDoResultado - ContarNulos(resultado.tabela), CelulasDoResultado)
    /\ ~IsNaN(metricas.qualidade_geral)

\* x is a number in [0, 1]
EmZeroUm(x) == x.den > 0 /\ 0 <= x.num /\ x.num <= x.den

\* C17: the composite score (qualidade_geral) of the report computed on the
\* result of a join is a number in [0, 1], for any tables, key pair and mode.
C17_QualidadeEmZeroUm ==
  op = "avaliar_qualidade" => EmZeroUm(metricas.qualidade_geral)

\* C17 with nan set aside: the composite score is never a number above 1.
C17_NuncaAcimaDeUm ==
  op = "avaliar_qualidade" =>
    (IsNaN(metricas.qualidade_geral) \/ metricas.qualidade_geral.num <= metricas.qualidade_geral.den)

\* q = (a + b + c) / 3 for numbers a, b, c
MediaDeTres(q, a, b, c) ==
  /\ q.den # 0
  /\ 3 * q.num * a.den * b.den * c.den
       = q.den * (a.num * b.den * c.den + b.num * a.den * c.den + c.num * a.den * b.den)

\* C18: the composite score is the unweighted mean of exactly three
\* components, (match rate 1 + match rate 2 + completeness) / 3 (nan when a
\* component is nan), and it is in [0, 1] whenever the three components are.
C18_MediaDeTres ==
  op = "avaliar_qualidade" =>
    LET a == metricas.taxa_correspondencia_df1
        b == metricas.taxa_correspondencia_df2
        c == metricas.completude
        q == metricas.qualidade_geral
    IN /\ IF IsNaN(a) \/ IsNaN(b) \/ IsNaN(c) THEN IsNaN(q) ELSE MediaDeTres(q, a, b, c)
       /\ (EmZeroUm(a) /\ EmZeroUm(b) /\ EmZeroUm(c)) => EmZeroUm(q)

\* a report whose three components are in [0, 1], with different match rates
\* and a completeness strictly between 0 and 1
C18_Witness ==
  /\ op = "avaliar_qualidade"
  /\ EmZeroUm(metricas.taxa_correspondencia_df1)
  /\ EmZeroUm(metricas.taxa_correspondencia_df2)
  /\ EmZeroUm(metricas.completude)
  /\ 0 < metricas.taxa_correspondencia_df1.num
  /\ metricas.taxa_correspondencia_df1.num * metricas.taxa_correspondencia_df2.den
       < metricas.taxa_correspondencia_df2.num * metricas.taxa_correspondencia_df1.den
  /\ 0 < metricas.completude.num /\ metricas.completude.num < metricas.completude.den
  /\ 0 < metricas.qualidade_geral.num
  /\ metricas.qualidade_geral.num < metricas.qualidade_geral.den

\* the last join was cruzar_dataframes in mode left, on existing keys, of a
\* table 1 with rows and a table 2 without rows
LeftComTabela2Vazia ==
  /\ op \in {"cruzar_dataframes", "avaliar_qualidade"}
  /\ args.metodo = "left"
  /\ ~Ausente1 /\ ~Ausente2
  /\ df1.n > 0 /\ df2.n = 0

\* C19: a left join of a table 1 that has rows with a table 2 of 0 rows
\* returns (no error) a table of rows(table 1) rows whose table-2 columns are
\* missing in every row, and its quality report has match rate 2 = 0.
C19_Tabela2Vazia ==
  LeftComTabela2Vazia =>
    /\ erro = SemErro
    /\ resultado.ok
    /\ resultado.tabela.n = df1.n
    /\ \A c \in ColunasDeOrigem2, r \in 1..resultado.tabela.n :
         IsNa(resultado.tabela.cols[c].vals[r])
    /\ op = "avaliar_qualidade" =>
         /\ FracaoIgual(metricas.taxa_correspondencia_df2, 0, 1)
         /\ FracaoIgual(metricas.taxa_correspondencia_df1, 1, 1)

\* the report of a left join of a 2-row table with a 0-row table that has a
\* column besides its key
C19_Witness ==
  /\ LeftComTabela2Vazia
  /\ op = "avaliar_qualidade"
  /\ df1.n = 2
  /\ ColunasDeOrigem2 # {}
  /\ resultado.tabela.n = 2
  /\ metricas.taxa_correspondencia_df2 = Inteiro(0)

(***************************************************************************)
(* Frame of the calls.                                                     *)
(***************************************************************************)
\* C20: no call of key discovery, of a join or of quality scoring changes an
\* input table: the column names, their order and the cell values of df1 and
\* df2 are after the call what they were before it, whether it returned or raised.
C20_EntradasIntactas == [][df1' = df1 /\ df2' = df2]_vars

\* after a discovery that returned a candidate and a join that returned a
\* table with prefixed and renamed columns, the report was computed and the
\* input tables still have their own column names
C20_Witness ==
  /\ op = "avaliar_qualidade"
  /\ Len(chaves) > 0
  /\ resultado.ok
  /\ "chave_juncao" \in ColumnSet(resultado.tabela)
  /\ Len(resultado.tabela.cols) > 1
  /\ ColumnSet(df1) \subseteq Nomes
  /\ ColumnSet(df2) \subseteq Nomes

(***************************************************************************)
(* Cross-name candidates.                                                  *)
(***************************************************************************)
\* C21: no cross-name candidate involves a numeric column: every emitted
\* candidate whose two names differ pairs two columns of text kind (dtype
\* kind O, S or U, none of i, u, f), each with uniqueness ratio above 0.5.
C21_SemColunaNumerica ==
  op = "chaves" =>
    \A i \in 1..Len(chaves) :
      chaves[i].col1 # chaves[i].col2 =>
        LET c1 == Col(df1, chaves[i].col1)
            c2 == Col(df2, chaves[i].col2)
        IN /\ c1.kind \notin {"i", "u", "f"} /\ c2.kind \notin {"i", "u", "f"}
           /\ c1.kind \in {"O", "S", "U"} /\ c2.kind \in {"O", "S", "U"}
           /\ 2 * NUnique(c1) > df1.n /\ 2 * NUnique(c2) > df2.n

\* a call returned a cross-name candidate of two text columns, and left out a
\* pair of int columns of different names, both of distinct values, with
\* the same values
C21_Witness ==
  /\ Retornou("chaves")
  /\ \E i \in 1..Len(chaves) : chaves[i].col1 # chaves[i].col2
  /\ \E i \in 1..Len(df1.cols), j \in 1..Len(df2.cols) :
       LET c1 == df1.cols[i]
           c2 == df2.cols[j]
       IN /\ c1.nome # c2.nome
          /\ c1.kind = "i" /\ c2.kind = "i"
          /\ 2 * NUnique(c1) > df1.n /\ 2 * NUnique(c2) > df2.n
          /\ DropNaStr(c1) = DropNaStr(c2) /\ DropNaStr(c1) # {}
          /\ ~Emitido(c1.nome, c2.nome)

(***************************************************************************)
(* The API clients.                                                        *)
(***************************************************************************)
\* the call that just started was given arguments its validation rejects
ArgumentosInvalidos(c) ==
  \/ /\ c.nome = "consultar_bolsa_familia_por_municipio"
     /\ \/ c.args.codigo_ibge = ""
        \/ c.args.mes < 1 \/ c.args.mes > 12
        \/ c.args.ano < 2000 \/ c.args.ano > AnoAtual
  \/ /\ c.nome = "consultar_endpoint_generico"
     /\ c.args.nome_endpoint \notin Endpoints

LevantouValueError(r) == r.tipo = "raise" /\ r.excecao = "ValueError"

\* C22: a call of PortalTransparenciaAPI with an empty codigo_ibge, a mes
\* outside 1..12, an ano outside 2000..current year or an endpoint name that
\* is no key of the table raises ValueError in the step that starts it: no
\* HTTP request is sent and last_request_time keeps its value
C22_ValidacaoAntesDaRequisicao ==
  [][(chamada.pc = "ocioso" /\ chamada'.cliente = "transparencia"
        /\ ArgumentosInvalidos(chamada'))
       => /\ LevantouValueError(retorno')
          /\ chamada'.pc = "fim"
          /\ pedidos' = pedidos
          /\ last_request_time' = last_request_time]_vars

\* a client that has sent requests before refused the year after the current one
C22_Witness ==
  /\ chamada.nome = "consultar_bolsa_familia_por_municipio"
  /\ chamada.args.codigo_ibge # "" /\ chamada.args.mes = 12
  /\ chamada.args.ano = AnoAtual + 1
  /\ LevantouValueError(retorno)
  /\ pedidos = <<>>
  /\ last_request_time > 0

\* a paginated call of PortalTransparenciaAPI that got past its validation
Paginada ==
  chamada.cliente = "transparencia" /\ chamada.paginar /\ chamada.pc # "ocioso"

\* a call of consultar_endpoint_generico with paginar = False past its validation
NaoPaginada ==
  /\ chamada.cliente = "transparencia" /\ ~chamada.paginar
  /\ chamada.nome = "consultar_endpoint_generico" /\ chamada.args.nome_endpoint \in Endpoints

\* the requests that fetched a page: the ones the server did not answer 429
Buscas(P) == SelectSeq(P, LAMBDA q : q.status # 429)

\* the requests that are no repetition of the one before them
Primeiras(P) == {i \in 1..Len(P) : i = 1 \/ P[i - 1].status # 429}

\* the records of the pages the requests 1..i fetched, in the order of the requests
RECURSIVE Concatenados(_, _)
Concatenados(P, i) ==
  IF i = 0 THEN <<>>
  ELSE Concatenados(P, i - 1)
         \o (IF P[i].status = 200 THEN Registros(P[i].params.pagina, P[i].n) ELSE <<>>)

\* the page was empty or held fewer than itens_por_pagina records
PaginaCurta(q) == q.n = 0 \/ q.n < chamada.itens_por_pagina

LimiteAtingido(q) ==
  Verdadeiro(chamada.max_paginas) /\ q.params.pagina >= chamada.max_paginas[1]

\* C23: a paginated call asks for pagina_inicial first and then for the next
\* page number each time (the same number again only after a 429); every page
\* that was followed by another request was full, so the call stops right
\* after the first empty or short page (one request when the first page is
\* short); what it returns is the records of the fetched pages in page order;
\* and with paginar = False one request is made, repeated only after a 429
C23_Paginacao ==
  /\ Paginada =>
       LET B == Buscas(pedidos)
       IN /\ \A i \in 1..Len(pedidos) :
               pedidos[i].params.pagina =
                 IF i = 1 THEN chamada.pagina_inicial
                 ELSE IF pedidos[i - 1].status = 429 THEN pedidos[i - 1].params.pagina
                 ELSE pedidos[i - 1].params.pagina + 1
          /\ \A i \in 1..Len(B) : B[i].params.pagina = chamada.pagina_inicial + i - 1
          /\ \A i \in 1..(Len(B) - 1) : B[i].status = 200 /\ ~PaginaCurta(B[i])
          /\ retorno.tipo = "return" =>
               /\ Len(B) >= 1
               /\ B[Len(B)].status = 200
               /\ PaginaCurta(B[Len(B)]) \/ LimiteAtingido(B[Len(B)])
               /\ retorno.valor = Concatenados(pedidos, Len(pedidos))
          /\ (Len(B) >= 1 /\ B[1].status = 200 /\ PaginaCurta(B[1])) =>
               (Len(B) = 1 /\ retorno.tipo = "return")
  /\ NaoPaginada =>
       /\ Cardinality(Primeiras(pedidos)) <= 1
       /\ chamada.pc = "fim" => Cardinality(Primeiras(pedidos)) = 1

\* pages 1 and 2 were fetched, the first full and the second short, and the
\* three records came back in page order
C23_Witness ==
  /\ Paginada
  /\ chamada.max_paginas = Nenhum
  /\ chamada.pagina_inicial = 1 /\ chamada.itens_por_pagina = 2
  /\ Len(pedidos) = 2
  /\ pedidos[1].status = 200 /\ pedidos[1].n = 2
  /\ pedidos[2].status = 200 /\ pedidos[2].n = 1
  /\ retorno.tipo = "return"
  /\ retorno.valor = <<<<1, 1>>, <<1, 2>>, <<2, 1>>>>

\* the page numbers the call asked for
PaginasPedidas == {pedidos[i].params.pagina : i \in 1..Len(pedidos)}

\* C24: a paginated call given max_paginas = k >= 1 asks for at most k pages,
\* whatever pagina_inicial is and whatever the server answers
C24_MaximoDePaginas ==
  (Paginada /\ Verdadeiro(chamada.max_paginas))
    => Cardinality(PaginasPedidas) <= chamada.max_paginas[1]

\* the same for the calls that start at page 1 or later
C24_DesdeAPaginaUm ==
  (Paginada /\ Verdadeiro(chamada.max_paginas) /\ chamada.pagina_inicial >= 1)
    => Cardinality(PaginasPedidas) <= chamada.max_paginas[1]

\* the path the claim gives the file of a format
CaminhoEsperado(caminho, formato) ==
  caminho \o (IF formato = "csv" THEN ".csv"
              ELSE IF formato = "excel" THEN ".xlsx"
              ELSE IF formato = "json" THEN ".json"
              ELSE ".pkl")

\* C25: salvar_dados of a non-empty table in one of the formats csv, excel,
\* json, pickle writes one file, caminho followed by .csv, .xlsx, .json or
\* .pkl, which exists after the call, and returns its path; of an empty table
\* it returns "" and writes nothing; of a non-empty table in any other format
\* it raises ValueError and writes nothing
C25_SalvarDados ==
  [][(chamada.pc = "ocioso" /\ chamada'.nome = "salvar_dados")
       => LET a == chamada'.args
          IN IF a.vazio
             THEN /\ retorno'.tipo = "return" /\ retorno'.valor = ""
                  /\ arquivos' = arquivos
             ELSE IF a.formato \in {"csv", "excel", "json", "pickle"}
             THEN /\ retorno'.tipo = "return"
                  /\ retorno'.valor = CaminhoEsperado(a.caminho, a.formato)
                  /\ arquivos' = arquivos \cup {CaminhoEsperado(a.caminho, a.formato)}
             ELSE /\ LevantouValueError(retorno')
                  /\ arquivos' = arquivos]_vars

\* a table was saved as excel beside a file saved before
C25_Witness ==
  /\ chamada.nome = "salvar_dados"
  /\ ~chamada.args.vazio /\ chamada.args.formato = "excel"
  /\ retorno.tipo = "return"
  /\ retorno.valor = "saida/dados.xlsx"
  /\ arquivos = {"dados.csv", "saida/dados.xlsx"}

\* the offset a CNDP search asks for, for a page and a page size
InicioDe(pagina, itens_por_pagina) ==
  ChamadaCNDP("buscar_conjuntos_dados", "/action/package_search",
              pagina, itens_por_pagina).params.start

\* a CNDP search sent its request
BuscaCNDP == chamada.cliente = "cndp" /\ Len(pedidos) >= 1

\* k is the ceiling of count / n
Teto(k, count, n) == k * n >= count /\ (k - 1) * n < count

\* C26: a CNDP search asks for rows = itens_por_pagina from the offset
\* start = (pagina - 1) * itens_por_pagina: page 1 starts at 0 and each page
\* starts where the page before it ends; the total_paginas it reports is the
\* ceiling of count / itens_por_pagina
C26_DeslocamentoDasPaginas ==
  BuscaCNDP =>
    LET n == chamada.itens_por_pagina
        p == chamada.pagina_inicial
    IN /\ \A i \in 1..Len(pedidos) :
            /\ pedidos[i].params.params.rows = n
            /\ pedidos[i].params.params.start = (p - 1) * n
       /\ InicioDe(1, n) = 0
       /\ InicioDe(p + 1, n) = pedidos[1].params.params.start + n
       /\ (retorno.tipo = "return" /\ Len(retorno.valor) > 0)
            => Teto(retorno.attrs.total_paginas, retorno.attrs.total, n)

\* page 2 of 2 records was asked for from offset 2, and 5 hits are 3 pages
C26_Witness ==
  /\ BuscaCNDP
  /\ chamada.nome = "buscar_recursos_por_formato"
  /\ chamada.pagina_inicial = 2 /\ chamada.itens_por_pagina = 2
  /\ pedidos[1].params.params.start = 2
  /\ retorno.tipo = "return" /\ Len(retorno.valor) > 0
  /\ retorno.attrs.total = 5 /\ retorno.attrs.total_paginas = 3

\* C27: every request of a rate-limited client is sent after the limiter ran
\* (last_request_time is the time of the request, no earlier than the clock
\* was before it), at least 1 / rate_limit after the request before it as
\* last_request_time measures it, first attempts and repetitions after a 429
\* alike; and last_request_time never decreases
C27_LimiteDeTaxa ==
  [][/\ last_request_time' >= last_request_time
     /\ Len(pedidos') > Len(pedidos) =>
          /\ last_request_time' >= relogio
          /\ last_request_time' - last_request_time >= IntervaloMinimo]_vars

\* a request answered 429 was repeated after the wait, and the repetition went
\* through the limiter
C27_Witness ==
  /\ Len(pedidos) = 2
  /\ pedidos[1].status = 429 /\ pedidos[2].status = 200
  /\ last_request_time = Epoca + IntervaloMinimo + Espera429
  /\ relogio = last_request_time

\* a call of DadosGovAPI that takes a category ended, given a name that is
\* no key of CATEGORIAS
CategoriaInexistente(nomes) ==
  /\ chamada.cliente = "dados_gov" /\ chamada.nome \in nomes
  /\ chamada.pc = "fim"
  /\ chamada.args.categoria \notin CATEGORIAS

\* C28: obter_amostra_dados raises ValueError for a category that is no key
\* of CATEGORIAS, as buscar_conjuntos_por_categoria and get_tags_por_categoria do
C28_CategoriaInexistente ==
  CategoriaInexistente({"obter_amostra_dados", "buscar_conjuntos_por_categoria",
                        "get_tags_por_categoria"})
    => LevantouValueError(retorno)

\* the same of the two other methods only
C28_OsOutrosDois ==
  CategoriaInexistente({"buscar_conjuntos_por_categoria", "get_tags_por_categoria"})
    => LevantouValueError(retorno)

\* a 429 is answered by asking for the same endpoint with the same params
\* again, and a 401, 403 or 404 ends the call at once, with an exception
\* unless the caller catches it
RepeteSoO429 ==
  /\ \A i \in 1..(Len(pedidos) - 1) :
       /\ pedidos[i].status = 429 => pedidos[i + 1].endpoint = pedidos[i].endpoint
                                      /\ pedidos[i + 1].params = pedidos[i].params
  /\ \A i \in 1..Len(pedidos) :
       pedidos[i].status \in {401, 403, 404} =>
         /\ i = Len(pedidos)
         /\ chamada.pc = "fim"
         /\ chamada.nome # "obter_amostra_dados" => retorno.tipo = "raise"

\* the call sent requests and is over
Terminou == chamada.pc = "fim" /\ Len(pedidos) >= 1

\* C29: a request answered 429 is repeated, the same endpoint and params,
\* and the 429 is never the outcome of the call; a 401, 403 or 404 makes the
\* call raise at once; the repetitions are unbounded, so a call is over only
\* when the server has answered with a status other than 429
C29_RepeteAteOutroStatus ==
  /\ RepeteSoO429
  /\ Terminou => pedidos[Len(pedidos)].status # 429

\* the same, the calls ended by the RecursionError of the interpreter set aside
C29_SemOLimiteDaPilha ==
  /\ RepeteSoO429
  /\ (Terminou /\ retorno.excecao # "RecursionError"
         /\ ~(chamada.nome = "obter_amostra_dados" /\ retorno.tipo = "return"
                /\ pedidos[Len(pedidos)].status = 429))
       => pedidos[Len(pedidos)].status # 429

(***************************************************************************)
(* The crossing page.                                                      *)
(***************************************************************************)
\* the step is a click on "Realizar Cruzamento", of either page
Clique == op' \in {"realizar_cruzamento", "realizar_cruzamento_app"}

\* the name the click gives to its result
NomeDoClique ==
  IF op' = "realizar_cruzamento"
  THEN NomeResultado(df1_nome, df2_nome)
  ELSE NomeResultadoApp(df1_nome, df2_nome)

\* C30: a click whose join or quality evaluation raises shows the error and
\* leaves the dataframes of the session exactly as they were; a click that
\* succeeds adds or overwrites exactly one entry, named after the two source
\* datasets and holding the result of the join, and leaves the entries of
\* the two sources, and every other entry, unchanged
C30_ArmazenaSoAposSucesso ==
  [][Clique =>
       /\ erro' # SemErro => mensagem' = "error" /\ sessao' = sessao
       /\ erro' = SemErro =>
            /\ mensagem' = "success"
            /\ DOMAIN sessao' = DOMAIN sessao \cup {NomeDoClique}
            /\ sessao'[NomeDoClique].data = resultado'.tabela
            /\ \A k \in DOMAIN sessao \ {NomeDoClique} : sessao'[k] = sessao[k]
            /\ NomeDoClique \notin {df1_nome, df2_nome}
            /\ sessao'[df1_nome].data = df1
            /\ sessao'[df2_nome].data = df2]_vars

\* a click failed after an earlier one had stored its result
C30_Witness ==
  /\ op \in {"realizar_cruzamento", "realizar_cruzamento_app"}
  /\ erro # SemErro
  /\ mensagem = "error"
  /\ \/ NomeResultado(df1_nome, df2_nome) \in DOMAIN sessao
     \/ NomeResultadoApp(df1_nome, df2_nome) \in DOMAIN sessao

====
